---- MODULE Spec2Model ----
(***************************************************************************)
(* Model of the jx_data_api report service.                                *)
(*                                                                         *)
(*   SpecGate    the concurrency gate TaskQueue.run_task                    *)
(*               (src/app/core/queue.py): an asyncio.Semaphore of          *)
(*               MAX_WORKERS tokens in front of loop.run_in_executor.      *)
(*   FairGate    SpecGate with the fairness of the event loop and executor.*)
(*   SpecCompare generate_weekly_report (src/app/services/report.py) run   *)
(*               on the daily rows of one store, with varied metrics.      *)
(*   SpecReport  the four report jobs run on requests with account and     *)
(*               store filters over a small database.                      *)
(*   SpecDaily   generate_daily_report run on stores with colliding and   *)
(*               overlong names, ranks, qualification counts and region    *)
(*               and stores blobs of every shape.                          *)
(*   SpecPool    the steps of one report job and the connections it holds  *)
(*               (src/app/core/database.py) at each of them.               *)
(*   SpecRoute   SpecGate with the responses of the report routes          *)
(*               (src/app/api/routes.py).                                  *)
(*   SpecLoad    SpecGate with the number of pooled connections the        *)
(*               running jobs hold.                                        *)
(***************************************************************************)
EXTENDS Integers, Sequences, FiniteSets, Bags, TLC

(***************************************************************************)
(* Program constants and model bounds.                                     *)
(***************************************************************************)
\* Settings.MAX_WORKERS, the size of the semaphore
MAX_WORKERS == 5

\* Settings.DB_POOL_SIZE, the pool_size of the MySQLConnectionPool
DB_POOL_SIZE == 20

\* k: the number of callers beyond MAX_WORKERS that use the gate
ExtraCallers == 1

NumCallers == MAX_WORKERS + ExtraCallers

\* what a job body can end with: it returns a document path, raises the
\* no-data ValueError, or raises anything else
JobOutcomes == {"path", "ValueError", "Exception"}

VARIABLES
    semaphore,  \* TaskQueue._semaphore._value: tokens not handed out
    callers     \* the invocations of run_task, a bag of records: callers are
                \* told apart by nothing but the point they have reached
                \*   pc        where the run_task coroutine stands
                \*   job       state of the job it handed to the executor
                \*   outcome   what the job body ended with
                \*   received  what run_task gave back to the caller

VARIABLES
    platform_accounts,  \* table platform_accounts: account |-> row
    kewen_daily_report, \* table kewen_daily_report with promotion_daily_report and
                        \* store_stats LEFT JOINed on (shop_id, report_date)
    request,            \* the parameters of the last report job run
    result              \* what that job ended with, and the workbook it built

VARIABLES
    pooljob \* a report job followed step by step through its use of the
            \* connection pool:
            \*   kind     "none" before it starts, else which job it is
            \*   todo     the steps it has still to take
            \*   held     the pooled connections it holds: name |-> the number
            \*            of queries it has executed on it
            \*   in_try   those of them its code has entered the try block of
            \*   last     the step it took last
            \*   outcome  "running", or what it ended with

VARIABLES
    in_use,   \* the connections of the pool that are handed out
    response  \* the last response a report route gave: what run_task gave
              \* the route, whether the file was there, the status code

gateVars == <<semaphore, callers>>

reportVars == <<platform_accounts, kewen_daily_report, request, result, pooljob, in_use, response>>

vars == <<semaphore, callers, platform_accounts, kewen_daily_report, request, result, pooljob, in_use, response>>

(***************************************************************************)
(* The gate: TaskQueue.run_task                                            *)
(***************************************************************************)
Caller(pc, job, outcome, received) ==
    [pc |-> pc, job |-> job, outcome |-> outcome, received |-> received]

Idle == Caller("idle", "none", "none", "none")
\* suspended in Semaphore.acquire, in the semaphore's _waiters
Waiting == Caller("waiting", "none", "none", "none")
\* handed a token by release(), not yet resumed
Admitted == Caller("admitted", "none", "none", "none")

Present == BagToSet(callers)

\* the callers with fields changed: one copy of `from` becomes `to`
Move(bag, from, to) == (bag (-) SetToBag({from})) (+) SetToBag({to})

\* Python None, SQL NULL, a key a dict does not have
None == <<>>

Some(x) == <<x>>

\* no job is being followed
NoJob == [kind |-> "none", todo |-> <<>>, held |-> <<>>, in_try |-> {}, last |-> <<>>, outcome |-> "running"]

\* the report side before any job has run
NoReport ==
    /\ platform_accounts = None
    /\ kewen_daily_report = {}
    /\ request = None
    /\ result = None
    /\ pooljob = NoJob
    /\ in_use = 0
    /\ response = None

InitGate ==
    /\ semaphore = MAX_WORKERS
    /\ callers = [r \in {Idle} |-> NumCallers]
    /\ NoReport

\* asyncio.Semaphore.locked(): no token, or somebody is queued ahead
Locked == semaphore = 0 \/ BagIn(Waiting, callers)

\* asyncio.Semaphore.release() as __aexit__ calls it: the first waiter, if
\* any, is handed the token and made ready to run; else the token goes back
ReleaseNoWakeUp(sem, bag) ==
    [sem |-> sem + 1, bag |-> bag]

Release(sem, bag) ==
    IF BagIn(Waiting, bag)
    THEN [sem |-> sem, bag |-> Move(bag, Waiting, Admitted)]
    ELSE [sem |-> sem + 1, bag |-> bag]

\* loop.run_in_executor(None, lambda: func(*args, **kwargs)): the job is put
\* on the default executor's queue and the coroutine awaits its future
Dispatched == Caller("awaiting", "queued", "none", "none")

\* run_task is called: `async with semaphore` takes a token at once when the
\* semaphore is not locked and goes on to dispatch the job without
\* suspending; otherwise the caller queues behind the earlier waiters
Submit ==
    /\ BagIn(Idle, callers)
    /\ IF ~Locked
       THEN /\ semaphore' = semaphore - 1
            /\ callers' = Move(callers, Idle, Dispatched)
       ELSE /\ callers' = Move(callers, Idle, Waiting)
            /\ UNCHANGED semaphore
    /\ UNCHANGED reportVars

\* a woken waiter resumes inside `async with` holding its token and
\* dispatches its job
Admit ==
    /\ BagIn(Admitted, callers)
    /\ callers' = Move(callers, Admitted, Dispatched)
    /\ UNCHANGED semaphore
    /\ UNCHANGED reportVars

\* a thread of the executor takes the job off the queue and runs its body
StartJob(r) ==
    /\ r.job = "queued"
    /\ callers' = Move(callers, r, [r EXCEPT !.job = "running"])
    /\ UNCHANGED semaphore
    /\ UNCHANGED reportVars

\* the job body ends on its thread, returning a path or raising
FinishJob(r, o) ==
    /\ r.job = "running"
    /\ callers' = Move(callers, r, [r EXCEPT !.job = "finished", !.outcome = o])
    /\ UNCHANGED semaphore
    /\ UNCHANGED reportVars

\* the awaited future is done: run_task leaves `async with` (releasing the
\* token) and returns the result or re-raises the job's exception
CompleteReleaseOnReturnOnly(r) ==
    /\ r.pc = "awaiting"
    /\ r.job = "finished"
    /\ LET bag == Move(callers, r, [r EXCEPT !.pc = "done", !.received = r.outcome])
           rel == IF r.outcome = "path" THEN Release(semaphore, bag)
                  ELSE [sem |-> semaphore, bag |-> bag]
       IN  /\ semaphore' = rel.sem
           /\ callers' = rel.bag
    /\ UNCHANGED reportVars

Complete(r) ==
    /\ r.pc = "awaiting"
    /\ r.job = "finished"
    /\ LET rel == Release(semaphore,
                          Move(callers, r, [r EXCEPT !.pc = "done", !.received = r.outcome]))
       IN  /\ semaphore' = rel.sem
           /\ callers' = rel.bag
    /\ UNCHANGED reportVars

\* the task running run_task is cancelled (its caller abandoned the request):
\* CancelledError is raised at the await the coroutine is suspended in
CancelKillsJob(r) ==
    /\ r.pc \in {"waiting", "admitted", "awaiting"}
    /\ LET gone == [r EXCEPT !.pc = "done", !.received = "CancelledError",
                             !.job = IF r.job \in {"queued", "running"}
                                     THEN "dropped" ELSE r.job]
       IN  IF r.pc = "waiting"
           THEN /\ callers' = Move(callers, r, gone)
                /\ UNCHANGED semaphore
           ELSE LET rel == Release(semaphore, Move(callers, r, gone))
                IN  /\ semaphore' = rel.sem
                    /\ callers' = rel.bag
    /\ UNCHANGED reportVars

Cancel(r) ==
    /\ r.pc \in {"waiting", "admitted", "awaiting"}
    /\ LET gone == [r EXCEPT !.pc = "done", !.received = "CancelledError",
                             \* a job no thread has taken yet is cancelled with
                             \* its future; a running body is out of the event
                             \* loop's reach and keeps running
                             !.job = IF r.job = "queued" THEN "dropped" ELSE r.job]
       IN  IF r.pc = "waiting"
           \* Semaphore.acquire: the waiter leaves the queue, it holds no token
           THEN /\ callers' = Move(callers, r, gone)
                /\ UNCHANGED semaphore
           \* Semaphore.acquire gives back the token it was handed; past
           \* acquire, `async with` exits through __aexit__ and releases
           ELSE LET rel == Release(semaphore, Move(callers, r, gone))
                IN  /\ semaphore' = rel.sem
                    /\ callers' = rel.bag
    /\ UNCHANGED reportVars

NextGate ==
    \/ Submit
    \/ Admit
    \/ \E r \in Present : StartJob(r)
    \/ \E r \in Present, o \in JobOutcomes : FinishJob(r, o)
    \/ \E r \in Present : Complete(r)
    \/ \E r \in Present : Cancel(r)

SpecGate == InitGate /\ [][NextGate]_vars

\* The event loop runs every coroutine that is ready (Admit, Complete), the
\* executor gives every queued job a thread (StartJob) and every job body
\* terminates (FinishJob).  Nothing obliges a client to send a request or to
\* abandon one: Submit and Cancel carry no fairness.
FairGate ==
    /\ SpecGate
    /\ WF_vars(Admit)
    /\ WF_vars(\E r \in Present : StartJob(r))
    /\ WF_vars(\E r \in Present, o \in JobOutcomes : FinishJob(r, o))
    /\ WF_vars(\E r \in Present : Complete(r))

(***************************************************************************)
(* Properties of the gate                                                  *)
(***************************************************************************)
\* the number of callers (with multiplicity) that satisfy a condition
Count(S) == BagCardinality([r \in S |-> callers[r]])

\* job bodies executing on a thread of the executor
Executing == Count({r \in Present : r.job = "running"})

\* callers inside `async with semaphore`, each holding one token
Holders == Count({r \in Present : r.pc \in {"admitted", "awaiting"}})

Pending == {r \in Present : r.pc \in {"waiting", "admitted", "awaiting"}}

\* C1: in every reachable state at most MAX_WORKERS job bodies are executing
\* on a worker.
C1_AtMostMaxWorkersExecuting == Executing <= MAX_WORKERS

\* C2: every submission to run_task eventually completes (run_task returns
\* or raises to its caller), however many callers are queued on the gate.
C2_EverySubmissionCompletes ==
    (Pending # {}) ~> (Pending = {})

\* all MAX_WORKERS + k callers have called run_task and one that had to
\* queue has been handed the token of a caller that left the gate
C2_Witness ==
    /\ ~BagIn(Idle, callers)
    /\ BagIn(Admitted, callers)

\* C3: a job that raises gives its token back and its caller receives that
\* same failure: the tokens not handed out plus the callers inside the gate
\* are MAX_WORKERS in every state, and a caller that run_task raised to (it
\* was not cancelled) holds exactly what its own job raised.
C3_FailureReleasesAndPropagates ==
    /\ semaphore + Holders = MAX_WORKERS
    /\ \A r \in Present :
          (r.pc = "done" /\ r.outcome \in {"ValueError", "Exception"}
                         /\ r.received # "CancelledError")
              => r.received = r.outcome

\* a job raised, its caller got the failure and every token is back
C3_Witness ==
    /\ BagIn(Caller("done", "finished", "ValueError", "ValueError"), callers)
    /\ semaphore = MAX_WORKERS

Cancelled == Count({r \in Present : r.received = "CancelledError"})

OrphansAlive ==
    Count({r \in Present : r.received = "CancelledError"
                           /\ r.job \in {"running", "finished"}})

OrphansRunning == {r \in Present : r.received = "CancelledError" /\ r.job = "running"}

Digits == <<"0", "1", "2", "3", "4", "5", "6", "7", "8", "9">>

DigitVal(ch) == (CHOOSE i \in 1 .. 10 : Digits[i] = ch) - 1

RECURSIVE NatToChars(_)
\* str(n) of an int n >= 0
NatToChars(n) ==
    IF n < 10 THEN <<Digits[n + 1]>>
    ELSE NatToChars(n \div 10) \o <<Digits[(n % 10) + 1]>>

Abs(x) == IF x < 0 THEN -x ELSE x

\* str(n) of an int
IntToChars(n) == IF n < 0 THEN <<"-">> \o NatToChars(-n) ELSE NatToChars(n)

\* str(x) of a number with one decimal place, given in tenths: "33.3", "-20.0"
Dec1ToChars(t) ==
    (IF t < 0 THEN <<"-">> ELSE <<>>)
        \o NatToChars(Abs(t) \div 10) \o <<".">> \o <<Digits[(Abs(t) % 10) + 1]>>

RECURSIVE CharsToNat(_)
CharsToNat(cs) ==
    IF cs = <<>> THEN 0
    ELSE 10 * CharsToNat(SubSeq(cs, 1, Len(cs) - 1)) + DigitVal(cs[Len(cs)])

RECURSIVE rstrip(_, _)
\* str.rstrip(ch)
rstrip(cs, ch) ==
    IF cs # <<>> /\ cs[Len(cs)] = ch THEN rstrip(SubSeq(cs, 1, Len(cs) - 1), ch) ELSE cs

\* the position of the first "." in cs, 0 when there is none
DotAt(cs) ==
    IF \E i \in 1 .. Len(cs) : cs[i] = "."
    THEN CHOOSE i \in 1 .. Len(cs) : cs[i] = "." /\ \A j \in 1 .. (i - 1) : cs[j] # "."
    ELSE 0

\* float(cs) in tenths, for a decimal numeral with at most one place after
\* the point (all that str() of a number rounded to one place produces)
float(cs) ==
    LET neg == cs # <<>> /\ cs[1] = "-"
        body == IF neg THEN Tail(cs) ELSE cs
        dot == DotAt(body)
        whole == IF dot = 0 THEN body ELSE SubSeq(body, 1, dot - 1)
        frac == IF dot = 0 THEN <<>> ELSE SubSeq(body, dot + 1, Len(body))
        mag == 10 * CharsToNat(whole) + (IF frac = <<>> THEN 0 ELSE DigitVal(frac[1]))
    IN  IF neg THEN -mag ELSE mag

\* n / d for n >= 0, d > 0, rounded to the nearest integer, ties to even:
\* round() of a Decimal (what the driver returns for SUM) and of a float
RoundDiv(n, d) ==
    LET q == n \div d
        r == n % d
    IN  IF 2 * r < d THEN q
        ELSE IF 2 * r > d THEN q + 1
        ELSE IF q % 2 = 0 THEN q ELSE q + 1

\* safe_get_val(data, key): data is week_data.get(shop_id, {}), None here
\* when the dict has no such store
safe_get_val(data, key) ==
    IF data = None THEN 0
    ELSE IF data[1].col[key] = None THEN 0
    ELSE data[1].col[key][1]

\* calc_rate: a number with one decimal place, or the int 0
calc_rate(numerator, denominator) ==
    IF denominator > 0
    THEN [isint |-> FALSE, tenths |-> RoundDiv(numerator * 1000, denominator)]
    ELSE [isint |-> TRUE, tenths |-> 0]

\* calc_avg_price, in hundredths
calc_avg_price(total, count) ==
    IF count > 0 THEN RoundDiv(total, count) ELSE 0

\* f"{rate}%" of what calc_rate returned
FormatRate(rate) ==
    (IF rate.isint THEN IntToChars(rate.tenths \div 10) ELSE Dec1ToChars(rate.tenths))
        \o <<"%">>

\* calc_rate_diff, the closure of generate_weekly_report: round(val2 - val1, 1)
\* of two numbers with one decimal place is their difference in tenths
calc_rate_diff_Swapped(rate1_str, rate2_str) ==
    LET val1 == IF rate1_str # <<"0", "%">>
                THEN [isint |-> FALSE, tenths |-> float(rstrip(rate1_str, "%"))]
                ELSE [isint |-> TRUE, tenths |-> 0]
        val2 == IF rate2_str # <<"0", "%">>
                THEN [isint |-> FALSE, tenths |-> float(rstrip(rate2_str, "%"))]
                ELSE [isint |-> TRUE, tenths |-> 0]
    IN  FormatRate([isint |-> val1.isint /\ val2.isint,
                    tenths |-> val1.tenths - val2.tenths])

calc_rate_diff(rate1_str, rate2_str) ==
    LET val1 == IF rate1_str # <<"0", "%">>
                THEN [isint |-> FALSE, tenths |-> float(rstrip(rate1_str, "%"))]
                ELSE [isint |-> TRUE, tenths |-> 0]
        val2 == IF rate2_str # <<"0", "%">>
                THEN [isint |-> FALSE, tenths |-> float(rstrip(rate2_str, "%"))]
                ELSE [isint |-> TRUE, tenths |-> 0]
    IN  FormatRate([isint |-> val1.isint /\ val2.isint,
                    tenths |-> val2.tenths - val1.tenths])

(***************************************************************************)
(* Tables.                                                                 *)
(*   A row of kewen_daily_report, joined as the report queries join it:    *)
(*     [shop_id, report_date, shop_name, col]                              *)
(*   where col gives every summed column its value or None (SQL NULL; the  *)
(*   p. and s. columns are NULL when the LEFT JOIN finds no row).          *)
(***************************************************************************)
\* SELECT list of sql_week: alias |-> the column that is summed
SourceCol ==
    [verify_after_discount |-> "k.verify_after_discount",
     exposure_users        |-> "k.exposure_users",
     visit_users           |-> "k.visit_users",
     order_users           |-> "k.order_users",
     order_coupon_count    |-> "k.order_coupon_count",
     verify_users          |-> "k.verify_person_count",
     verify_coupon_count   |-> "k.verify_coupon_count",
     order_sale_amount     |-> "k.order_sale_amount",
     verify_sale_amount    |-> "k.verify_sale_amount",
     coupon_orders         |-> "k.coupon_pay_order_count",
     phone_clicks          |-> "p.view_phone_count",
     promotion_cost        |-> "k.promotion_cost",
     promotion_exposure    |-> "k.promotion_exposure_count",
     promotion_clicks      |-> "k.promotion_click_count",
     promotion_orders      |-> "p.order_count",
     view_groupbuy         |-> "p.view_groupbuy_count",
     view_phone            |-> "p.view_phone_count",
     consult_users         |-> "k.consult_users",
     address_clicks        |-> "p.view_address_count",
     new_collect           |-> "k.new_collect_users",
     new_good_reviews      |-> "k.new_good_review_count",
     new_reviews           |-> "k.new_review_count",
     checkin_count         |-> "s.checkin_count"]

AggFields == DOMAIN SourceCol

DailyCols == {SourceCol[f] : f \in AggFields}

\* the columns only the daily query selects: k.intent_rate is a str, the
\* others are numbers
DetailCols ==
    {"k.intent_rate", "p.click_avg_price", "s.order_user_rank", "s.verify_amount_rank",
     "s.ad_balance", "s.ad_order_count", "s.is_force_offline"}

TableCols == DailyCols \cup DetailCols

\* display names of stores, as the sequences of their characters
Central == <<"C", "e", "n", "t", "r", "a", "l">>

CentralEast == Central \o <<" ", "E", "a", "s", "t">>

RECURSIVE SumOver(_, _)
\* the sum of the non-NULL values of column c in a set of rows
SumOver(rows, c) ==
    IF rows = {} THEN 0
    ELSE LET r == CHOOSE x \in rows : TRUE
         IN  (IF r.col[c] = None THEN 0 ELSE r.col[c][1]) + SumOver(rows \ {r}, c)

\* SQL SUM(c) over a group: NULL when no row has a value
SUM(rows, c) ==
    IF \A r \in rows : r.col[c] = None THEN None ELSE Some(SumOver(rows, c))

\* WHERE k.report_date BETWEEN start AND end
InRange(start, end) ==
    {r \in kewen_daily_report : start <= r.report_date /\ r.report_date <= end}

\* sql_week: one row per (shop_id, shop_name) with the sums of the range
sql_week(start, end) ==
    LET rows == InRange(start, end)
        groups == {<<r.shop_id, r.shop_name>> : r \in rows}
    IN  {[shop_id |-> g[1], shop_name |-> g[2],
          col |-> [f \in AggFields |->
                     SUM({r \in rows : r.shop_id = g[1] /\ r.shop_name = g[2]},
                         SourceCol[f])]] : g \in groups}

\* {row['shop_id']: row for row in cursor.fetchall()}: of the rows of one
\* store the dict keeps the one fetched last; ORDER BY k.shop_id leaves their
\* order open, so any of them can be the one kept
week_data(start, end) ==
    LET fetched == sql_week(start, end)
        ids == {row.shop_id : row \in fetched}
    IN  {d \in [ids -> fetched] : \A id \in ids : d[id].shop_id = id}

\* dict.get(key, {}) as an optional
Get(d, key) == IF key \in DOMAIN d THEN Some(d[key]) ELSE None

RECURSIVE sorted(_)
\* sorted(set of shop ids)
sorted(S) ==
    IF S = {} THEN <<>>
    ELSE LET m == CHOOSE x \in S : \A y \in S : x <= y
         IN  <<m>> \o sorted(S \ {m})

(***************************************************************************)
(* The comparative workbook: the eight rows of one store                   *)
(* (generate_weekly_report, the body of `for shop_id in sorted(...)`).     *)
(* Labels are given in English: "seq" for the sequence-number header,      *)
(* "period" for the data-period header, "diff" for the delta marker.       *)
(***************************************************************************)
header_row1 ==
    <<"seq", "operator", "city", "sales", "shop", "period",
      "verify_after_discount", "exposure_users", "visit_users", "exposure_visit_rate",
      "order_users", "order_coupons", "order_rate", "verify_users", "verify_coupons",
      "order_sale_amount", "verify_sale_amount", "coupon_orders", "phone_clicks",
      "avg_price">>

header_row2 ==
    <<"", "", "", "", "", "period",
      "promotion_cost", "promotion_exposure", "promotion_clicks", "promotion_click_price",
      "promotion_orders", "promotion_order_rate", "view_groupbuy", "view_phone",
      "consult", "address_clicks", "collect", "collect_rate", "good_reviews",
      "review_rate">>

StoreRows(seq_num, operator, city, sales, shop_name, week1_str, week2_str, w1, w2) ==
    LET w1_verify_discount == safe_get_val(w1, "verify_after_discount")
        w1_exposure == safe_get_val(w1, "exposure_users")
        w1_visit == safe_get_val(w1, "visit_users")
        w1_order_users == safe_get_val(w1, "order_users")
        w1_order_coupons == safe_get_val(w1, "order_coupon_count")
        w1_verify_users == safe_get_val(w1, "verify_users")
        w1_verify_coupons == safe_get_val(w1, "verify_coupon_count")
        w1_order_amount == safe_get_val(w1, "order_sale_amount")
        w1_verify_amount == safe_get_val(w1, "verify_sale_amount")
        w1_coupon_orders == safe_get_val(w1, "coupon_orders")
        w1_phone_clicks == safe_get_val(w1, "phone_clicks")
        w1_exposure_rate == FormatRate(calc_rate(w1_visit, w1_exposure))
        w1_order_rate == FormatRate(calc_rate(w1_order_users, w1_visit))
        w1_avg_price == calc_avg_price(w1_verify_discount, w1_verify_users)

        w2_verify_discount == safe_get_val(w2, "verify_after_discount")
        w2_exposure == safe_get_val(w2, "exposure_users")
        w2_visit == safe_get_val(w2, "visit_users")
        w2_order_users == safe_get_val(w2, "order_users")
        w2_order_coupons == safe_get_val(w2, "order_coupon_count")
        w2_verify_users == safe_get_val(w2, "verify_users")
        w2_verify_coupons == safe_get_val(w2, "verify_coupon_count")
        w2_order_amount == safe_get_val(w2, "order_sale_amount")
        w2_verify_amount == safe_get_val(w2, "verify_sale_amount")
        w2_coupon_orders == safe_get_val(w2, "coupon_orders")
        w2_phone_clicks == safe_get_val(w2, "phone_clicks")
        w2_exposure_rate == FormatRate(calc_rate(w2_visit, w2_exposure))
        w2_order_rate == FormatRate(calc_rate(w2_order_users, w2_visit))
        w2_avg_price == calc_avg_price(w2_verify_discount, w2_verify_users)

        diff_verify_discount == w2_verify_discount - w1_verify_discount
        diff_exposure == w2_exposure - w1_exposure
        diff_visit == w2_visit - w1_visit
        diff_exposure_rate == calc_rate_diff(w1_exposure_rate, w2_exposure_rate)
        diff_order_users == w2_order_users - w1_order_users
        diff_order_coupons == w2_order_coupons - w1_order_coupons
        diff_order_rate == calc_rate_diff(w1_order_rate, w2_order_rate)
        diff_verify_users == w2_verify_users - w1_verify_users
        diff_verify_coupons == w2_verify_coupons - w1_verify_coupons
        diff_order_amount == w2_order_amount - w1_order_amount
        diff_verify_amount == w2_verify_amount - w1_verify_amount
        diff_coupon_orders == w2_coupon_orders - w1_coupon_orders
        diff_phone_clicks == w2_phone_clicks - w1_phone_clicks
        diff_avg_price == w2_avg_price - w1_avg_price

        w1_promo_cost == safe_get_val(w1, "promotion_cost")
        w1_promo_exposure == safe_get_val(w1, "promotion_exposure")
        w1_promo_clicks == safe_get_val(w1, "promotion_clicks")
        w1_promo_orders == safe_get_val(w1, "promotion_orders")
        w1_view_groupbuy == safe_get_val(w1, "view_groupbuy")
        w1_view_phone == safe_get_val(w1, "view_phone")
        w1_consult == safe_get_val(w1, "consult_users")
        w1_address == safe_get_val(w1, "address_clicks")
        w1_collect == safe_get_val(w1, "new_collect")
        w1_good_reviews == safe_get_val(w1, "new_good_reviews")
        w1_click_price == calc_avg_price(w1_promo_cost, w1_promo_clicks)
        w1_promo_rate == FormatRate(calc_rate(w1_promo_orders, w1_promo_clicks))
        w1_collect_rate == FormatRate(calc_rate(w1_collect, w1_visit))
        w1_review_rate == FormatRate(calc_rate(w1_good_reviews, w1_verify_users))

        w2_promo_cost == safe_get_val(w2, "promotion_cost")
        w2_promo_exposure == safe_get_val(w2, "promotion_exposure")
        w2_promo_clicks == safe_get_val(w2, "promotion_clicks")
        w2_promo_orders == safe_get_val(w2, "promotion_orders")
        w2_view_groupbuy == safe_get_val(w2, "view_groupbuy")
        w2_view_phone == safe_get_val(w2, "view_phone")
        w2_consult == safe_get_val(w2, "consult_users")
        w2_address == safe_get_val(w2, "address_clicks")
        w2_collect == safe_get_val(w2, "new_collect")
        w2_good_reviews == safe_get_val(w2, "new_good_reviews")
        w2_click_price == calc_avg_price(w2_promo_cost, w2_promo_clicks)
        w2_promo_rate == FormatRate(calc_rate(w2_promo_orders, w2_promo_clicks))
        w2_collect_rate == FormatRate(calc_rate(w2_collect, w2_visit))
        w2_review_rate == FormatRate(calc_rate(w2_good_reviews, w2_verify_users))

        diff_promo_cost == w2_promo_cost - w1_promo_cost
        diff_promo_exposure == w2_promo_exposure - w1_promo_exposure
        diff_promo_clicks == w2_promo_clicks - w1_promo_clicks
        diff_click_price == w2_click_price - w1_click_price
        diff_promo_orders == w2_promo_orders - w1_promo_orders
        diff_promo_rate == calc_rate_diff(w1_promo_rate, w2_promo_rate)
        diff_view_groupbuy == w2_view_groupbuy - w1_view_groupbuy
        diff_view_phone == w2_view_phone - w1_view_phone
        diff_consult == w2_consult - w1_consult
        diff_address == w2_address - w1_address
        diff_collect == w2_collect - w1_collect
        diff_collect_rate == calc_rate_diff(w1_collect_rate, w2_collect_rate)
        diff_good_reviews == w2_good_reviews - w1_good_reviews
        diff_review_rate == calc_rate_diff(w1_review_rate, w2_review_rate)

        row2 == <<seq_num, operator, city, sales, shop_name, week1_str,
                  w1_verify_discount, w1_exposure, w1_visit, w1_exposure_rate,
                  w1_order_users, w1_order_coupons, w1_order_rate, w1_verify_users,
                  w1_verify_coupons, w1_order_amount, w1_verify_amount,
                  w1_coupon_orders, w1_phone_clicks, w1_avg_price>>
        row3 == <<"", "", "", "", "", week2_str,
                  w2_verify_discount, w2_exposure, w2_visit, w2_exposure_rate,
                  w2_order_users, w2_order_coupons, w2_order_rate, w2_verify_users,
                  w2_verify_coupons, w2_order_amount, w2_verify_amount,
                  w2_coupon_orders, w2_phone_clicks, w2_avg_price>>
        row4 == <<"", "", "", "", "", "diff",
                  diff_verify_discount, diff_exposure, diff_visit, diff_exposure_rate,
                  diff_order_users, diff_order_coupons, diff_order_rate, diff_verify_users,
                  diff_verify_coupons, diff_order_amount, diff_verify_amount,
                  diff_coupon_orders, diff_phone_clicks, diff_avg_price>>
        row6 == <<"", "", "", "", "", week1_str,
                  w1_promo_cost, w1_promo_exposure, w1_promo_clicks, w1_click_price,
                  w1_promo_orders, w1_promo_rate, w1_view_groupbuy, w1_view_phone,
                  w1_consult, w1_address, w1_collect, w1_collect_rate,
                  w1_good_reviews, w1_review_rate>>
        row7 == <<"", "", "", "", "", week2_str,
                  w2_promo_cost, w2_promo_exposure, w2_promo_clicks, w2_click_price,
                  w2_promo_orders, w2_promo_rate, w2_view_groupbuy, w2_view_phone,
                  w2_consult, w2_address, w2_collect, w2_collect_rate,
                  w2_good_reviews, w2_review_rate>>
        row8 == <<"", "", "", "", "", "diff",
                  diff_promo_cost, diff_promo_exposure, diff_promo_clicks, diff_click_price,
                  diff_promo_orders, diff_promo_rate, diff_view_groupbuy, diff_view_phone,
                  diff_consult, diff_address, diff_collect, diff_collect_rate,
                  diff_good_reviews, diff_review_rate>>
    IN  <<header_row1, row2, row3, row4, header_row2, row6, row7, row8>>

(***************************************************************************)
(* Entity resolution: platform_accounts.stores_json                        *)
(*   A row of platform_accounts is                                         *)
(*     [stores_json, compareRegions_json, sales_name, city_name,           *)
(*      operator_name]                                                     *)
(*   each None (NULL) or Some(value).  A stores_json text is               *)
(*     [kind |-> "empty"]      the empty string                            *)
(*     [kind |-> "malformed"]  text json.loads rejects                     *)
(*     [kind |-> "json", value |-> v]  text json.loads decodes to v        *)
(*   and a decoded value v is [t |-> "list", items |-> <<...>>] or a value *)
(*   of another type; a list item is [t |-> "object", fields |-> f], f     *)
(*   giving each key it has its value (None for null), or something else.  *)
(***************************************************************************)
\* `if x:` for an optional list (a set here: the order of the list is not
\* used)
Truthy(opt) == opt # None /\ opt[1] # {}

\* `if x:` for an optional str
TruthyStr(opt) == opt # None /\ opt[1] # ""

\* `if x:` for an optional str given by its characters (a display name)
TruthyChars(opt) == opt # None /\ opt[1] # <<>>

\* str(store.get('shop_id', '')) of a list item that is a dict
ShopIdStr(item) ==
    IF "shop_id" \notin DOMAIN item.fields THEN <<>>
    ELSE IF item.fields["shop_id"] = None THEN <<"N", "o", "n", "e">>
    ELSE IntToChars(item.fields["shop_id"][1])

\* the shop ids one stores_json contributes: the body of `if stores_json:`
\* with its try/except (json.JSONDecodeError, TypeError)
StoreIdsOf_StopAtBadItem(stores_json) ==
    IF stores_json = None \/ stores_json[1].kind # "json" THEN {}
    ELSE LET stores == stores_json[1].value
         IN  IF stores.t # "list" THEN {}
             ELSE {ShopIdStr(stores.items[i]) :
                     i \in {j \in 1 .. Len(stores.items) :
                              /\ \A k \in 1 .. j : stores.items[k].t = "object"
                              /\ ShopIdStr(stores.items[j]) # <<>>}}

StoreIdsOf(stores_json) ==
    IF stores_json = None \/ stores_json[1].kind # "json" THEN {}
    ELSE LET stores == stores_json[1].value
         IN  IF stores.t # "list" THEN {}
             ELSE {ShopIdStr(stores.items[i]) :
                     i \in {j \in 1 .. Len(stores.items) :
                              /\ stores.items[j].t = "object"
                              /\ ShopIdStr(stores.items[j]) # <<>>}}

\* the accounts a query with `AND pa.account IN (...)` appended when
\* `if accounts:` holds selects
Selected(accounts) ==
    {a \in DOMAIN platform_accounts : Truthy(accounts) => a \in accounts[1]}

\* get_shop_info_mapping: shop id |-> operator, sales, city.  A store listed
\* by several accounts keeps the entry of the account fetched last, and the
\* query has no ORDER BY: any of them
get_shop_info_mapping(accounts) ==
    LET account_results ==
            {a \in Selected(accounts) : platform_accounts[a].stores_json # None}
        OrElse(opt, default) == IF TruthyStr(opt) THEN opt[1] ELSE default
        info(a) == [operator |-> OrElse(platform_accounts[a].operator_name, ""),
                    sales |-> OrElse(platform_accounts[a].sales_name, ""),
                    city |-> OrElse(platform_accounts[a].city_name, "")]
        owners(id) == {a \in account_results :
                         id \in StoreIdsOf(platform_accounts[a].stores_json)}
        ids == UNION {StoreIdsOf(platform_accounts[a].stores_json) : a \in account_results}
    IN  {m \in [ids -> {info(a) : a \in account_results}] :
            \A id \in ids : \E a \in owners(id) : m[id] = info(a)}

(***************************************************************************)
(* Entity resolution: platform_accounts.compareRegions_json                *)
(*   The text is given like a stores_json text.  Its decoded value is a    *)
(*   tagged JSON value [t |-> "object", fields |-> f] (f gives each key    *)
(*   its value), [t |-> "string", s |-> ...], [t |-> "null"],              *)
(*   [t |-> "number", n |-> ...] or [t |-> "list", items |-> ...].         *)
(***************************************************************************)
JNull == [t |-> "null"]

JStr(str) == [t |-> "string", s |-> str]

JObject(fields) == [t |-> "object", fields |-> fields]

\* {} as a decoded value
EmptyDict == JObject(<<>>)

\* isinstance(v, dict)
IsDict(v) == v.t = "object"

\* d.get(key, default) of a decoded object
DictGet(d, key, default) ==
    IF key \in DOMAIN d.fields THEN d.fields[key] ELSE default

\* x_info.get('regionName', '') if isinstance(x_info, dict) else ''
RegionName(info) ==
    IF IsDict(info) THEN DictGet(info, "regionName", JStr("")) ELSE JStr("")

\* the entries one compareRegions_json contributes: the body of
\* `if regions_json:` with its try/except (json.JSONDecodeError, TypeError)
RegionsOf(regions_json) ==
    IF regions_json = None \/ regions_json[1].kind # "json" THEN <<>>
    ELSE LET regions == regions_json[1].value
         IN  IF ~IsDict(regions) THEN <<>>
             ELSE [shop_id \in
                     {k \in DOMAIN regions.fields :
                        /\ IsDict(regions.fields[k])
                        /\ IsDict(DictGet(regions.fields[k], "regions", EmptyDict))} |->
                     LET regions_data == DictGet(regions.fields[shop_id], "regions", EmptyDict)
                     IN  [city |-> RegionName(DictGet(regions_data, "city", EmptyDict)),
                          district |-> RegionName(DictGet(regions_data, "district", EmptyDict)),
                          business |-> RegionName(DictGet(regions_data, "business", EmptyDict))]]

\* get_region_info_mapping: shop id |-> city, district, business.  As in
\* get_shop_info_mapping, a store in the blobs of several accounts keeps the
\* entry of the account fetched last
get_region_info_mapping(accounts) ==
    LET account_results ==
            {a \in Selected(accounts) : platform_accounts[a].compareRegions_json # None}
        entries(a) == RegionsOf(platform_accounts[a].compareRegions_json)
        ids == UNION {DOMAIN entries(a) : a \in account_results}
        owners(id) == {a \in account_results : id \in DOMAIN entries(a)}
    IN  {m \in [ids -> UNION {{entries(a)[id] : id \in DOMAIN entries(a)} :
                              a \in account_results}] :
            \A id \in ids : \E a \in owners(id) : m[id] = entries(a)[id]}

(***************************************************************************)
(* generate_weekly_report                                                  *)
(***************************************************************************)
NoData ==
    [outcome |-> "ValueError", stores |-> <<>>, sheet |-> <<>>, merges |-> {},
     sheets |-> <<>>, details |-> <<>>]

RECURSIVE Concat(_)
\* the rows appended to ws_summary, block after block
Concat(blocks) ==
    IF blocks = <<>> THEN <<>> ELSE Head(blocks) \o Concat(Tail(blocks))

\* merge_cells of columns 1..5 over the rows of every block
MergedCells_SkipLast(max_row) ==
    {<<row_idx, row_idx + 6, col>> :
        row_idx \in {r \in 2 .. max_row : (r - 2) % 8 = 0 /\ r + 6 < max_row},
        col \in 1 .. 5}

MergedCells(max_row) ==
    {<<row_idx, row_idx + 6, col>> :
        row_idx \in {r \in 2 .. max_row : (r - 2) % 8 = 0 /\ r + 6 <= max_row},
        col \in 1 .. 5}

\* set(week1_data.keys()) | set(week2_data.keys())
all_shop_ids_Intersection(week1_data, week2_data) ==
    (DOMAIN week1_data) \cap (DOMAIN week2_data)

all_shop_ids(week1_data, week2_data) ==
    (DOMAIN week1_data) \cup (DOMAIN week2_data)

\* ws_summary.title, two characters
SummaryTitle == <<"hui", "zong">>

\* week1_str, week2_str: the label of a period, its first and last day
week_str_StartOnly(start, end) == <<start, start>>

week_str(start, end) == <<start, end>>

\* the workbook built from the two dicts once they are fetched; a store
\* without a display name is shown under the default name of four characters
WeeklyWorkbook(week1_start, week1_end, week2_start, week2_end, shop_mapping, week1_data, week2_data) ==
    LET order == sorted(all_shop_ids(week1_data, week2_data))
        week1_str == week_str(week1_start, week1_end)
        week2_str == week_str(week2_start, week2_end)
        Block(i) ==
            LET shop_id == order[i]
                w1 == Get(week1_data, shop_id)
                w2 == Get(week2_data, shop_id)
                shop_name == IF w2 # None /\ TruthyChars(w2[1].shop_name) THEN w2[1].shop_name
                             ELSE IF w1 = None THEN Some(<<"wei", "zhi", "men", "dian">>)
                             ELSE w1[1].shop_name
                shop_info == Get(shop_mapping, IntToChars(shop_id))
                operator == IF shop_info = None \/ shop_info[1].operator = ""
                            THEN "--" ELSE shop_info[1].operator
                sales == IF shop_info = None \/ shop_info[1].sales = ""
                         THEN "--" ELSE shop_info[1].sales
                city == IF shop_info = None \/ shop_info[1].city = ""
                        THEN "--" ELSE shop_info[1].city
            IN  StoreRows(i, operator, city, sales, shop_name, week1_str, week2_str, w1, w2)
        max_row == 8 * Len(order)
    IN  IF all_shop_ids(week1_data, week2_data) = {} THEN NoData
        ELSE [outcome |-> "path",
              stores |-> order,
              sheet |-> Concat([i \in 1 .. Len(order) |-> Block(i)]),
              merges |-> MergedCells(max_row),
              sheets |-> <<SummaryTitle>>,
              details |-> <<>>,
              shop_mapping |-> shop_mapping]

\* every result generate_weekly_report can end with on the present tables
generate_weekly_report(week1_start, week1_end, week2_start, week2_end, accounts) ==
    {WeeklyWorkbook(week1_start, week1_end, week2_start, week2_end,
                    shop_mapping, week1_data, week2_data) :
        shop_mapping \in get_shop_info_mapping(accounts),
        week1_data \in week_data(week1_start, week1_end),
        week2_data \in week_data(week2_start, week2_end)}

generate_monthly_report(month1_start, month1_end, month2_start, month2_end, accounts) ==
    generate_weekly_report(month1_start, month1_end, month2_start, month2_end, accounts)

generate_custom_report(period1_start, period1_end, period2_start, period2_end, shop_ids, accounts) ==
    generate_weekly_report(period1_start, period1_end, period2_start, period2_end, accounts)

(***************************************************************************)
(* generate_daily_report: store filter, query, summary and detail sheets    *)
(***************************************************************************)
\* shop_ids_filter: None without accounts, else the shop ids of the stores
\* blobs of the accounts listed (this query keeps NULL blobs, they are
\* skipped by `if stores_json:`)
shop_ids_filter(accounts) ==
    IF ~Truthy(accounts) THEN None
    ELSE Some(UNION {StoreIdsOf(platform_accounts[a].stores_json) : a \in Selected(accounts)})

\* the rows of the daily query: WHERE k.report_date = %s, and
\* AND k.shop_id IN (...) when `if shop_ids_filter:` holds
daily_rows(report_date, filter) ==
    {r \in kewen_daily_report :
        /\ r.report_date = report_date
        /\ Truthy(filter) => IntToChars(r.shop_id) \in filter[1]}

\* "Sheet"
\* the default of clean_sheet_name's parameter max_length
max_length == 31

\* clean_sheet_name(name)
clean_sheet_name(name) ==
    LET DefaultSheetName == <<"S", "h", "e", "e", "t">>
        illegal_chars == {"\\", "/", "*", "?", ":", "[", "]"}
        Legal(ch) == ch \notin illegal_chars
        stripped == SelectSeq(name, Legal)
        cut == IF Len(stripped) > max_length THEN SubSeq(stripped, 1, max_length)
               ELSE stripped
    IN  IF name = <<>> THEN DefaultSheetName
        ELSE IF cut = <<>> THEN DefaultSheetName
        ELSE cut

\* the title asked of wb.create_sheet for one store, and sheet_names_used
\* after it: the counter is kept under the cleaned name, and the suffixed
\* title is not entered
NextSheetName(sheet_names_used, shop_name) ==
    LET sheet_name == clean_sheet_name(shop_name)
        Prefix(name, n) == SubSeq(name, 1, IF Len(name) < n THEN Len(name) ELSE n)
    IN  IF sheet_name \in DOMAIN sheet_names_used
        THEN [used |-> [sheet_names_used EXCEPT ![sheet_name] = @ + 1],
              sheet_name |-> Prefix(sheet_name, 28) \o <<"_">>
                                \o NatToChars(sheet_names_used[sheet_name] + 1)]
        ELSE [used |-> sheet_names_used @@ (sheet_name :> 1),
              sheet_name |-> sheet_name]

RECURSIVE SheetNames(_, _)
\* the titles asked for the display names of the rows, in row order
SheetNames(names, sheet_names_used) ==
    IF names = <<>> THEN <<>>
    ELSE LET step == NextSheetName(sheet_names_used, Head(names))
         IN  <<step.sheet_name>> \o SheetNames(Tail(names), step.used)

\* row[c] or 0
OrZero(opt) == IF opt = None THEN 0 ELSE opt[1]

\* `if v:` for a decoded JSON value
JTruthy(v) ==
    CASE v.t = "string" -> v.s # ""
      [] v.t = "number" -> v.n # 0
      [] v.t = "null" -> FALSE
      [] v.t = "list" -> v.items # <<>>
      [] OTHER -> DOMAIN v.fields # {}

\* `if rank and rank < 100`
RankBelow100(rank) == rank # None /\ rank[1] # 0 /\ rank[1] < 100

\* order_rank_str, verify_rank_str: the text is given by its parts,
\* <<"rank", N>> for the N-th place
rank_str(rank) ==
    IF RankBelow100(rank) THEN <<"rank", rank[1]>>
    ELSE IF rank # None /\ rank[1] # 0 /\ rank[1] >= 100 THEN <<"gt100">>
    ELSE <<"--">>

\* order_rank_display, verify_rank_display
rank_display(region_display, rank) ==
    IF RankBelow100(rank) THEN <<region_display, ":", "rank", rank[1]>>
    ELSE <<region_display, ":", "gt100">>

\* f"{rate:.1f}%" of num / den * 100, of 0 when den is 0
RateStr(num, den) ==
    Dec1ToChars(IF den > 0 THEN RoundDiv(1000 * num, den) ELSE 0) \o <<"%">>

\* rate >= threshold, for rate = num / den * 100 and 0 when den is 0
qualified_Strict(num, den, threshold) ==
    IF den > 0 /\ 100 * num > threshold * den THEN "qualified" ELSE "not_qualified"

qualified(num, den, threshold) ==
    IF den > 0 /\ 100 * num >= threshold * den THEN "qualified" ELSE "not_qualified"

\* get_coupon_orders_last_7days: COALESCE(SUM(coupon_pay_order_count), 0)
\* over the store's rows of the seven days that end with report_date
get_coupon_orders_last_7days(shop_id, report_date) ==
    SumOver({r \in kewen_daily_report :
                /\ r.shop_id = shop_id
                /\ report_date - 6 <= r.report_date
                /\ r.report_date <= report_date},
            "k.coupon_pay_order_count")

\* get_ad_orders_today: COALESCE(ad_order_count, 0) of the store_stats row of
\* the store and day, 0 without one
get_ad_orders_today(shop_id, report_date) ==
    SumOver({r \in kewen_daily_report :
                r.shop_id = shop_id /\ r.report_date = report_date},
            "s.ad_order_count")

summary_headers ==
    <<"weekday", "date", "seq", "operator", "city", "sales", "shop",
      "exposure_users", "visit_users", "order_users", "verify_users",
      "order_coupon_count", "verify_coupon_count", "phone_clicks", "address_clicks",
      "promotion_cost", "good_reviews", "intent_rate",
      "order_sale_amount", "verify_sale_amount", "verify_after_discount",
      "order_user_rank", "verify_amount_rank">>

\* what one pass of `for idx, row in enumerate(rows, start=1)` appends to the
\* summary sheet and writes to the store's detail sheet
DailyStore(idx, row, report_date, shop_mapping, region_mapping) ==
    LET shop_id == IntToChars(row.shop_id)
        shop_name == IF TruthyChars(row.shop_name) THEN row.shop_name[1]
                     ELSE <<"men", "dian">> \o shop_id
        shop_info == Get(shop_mapping, shop_id)
        operator == IF shop_info = None THEN "" ELSE shop_info[1].operator
        sales == IF shop_info = None THEN "" ELSE shop_info[1].sales
        city == IF shop_info = None THEN "" ELSE shop_info[1].city
        region_info == Get(region_mapping, shop_id)
        region_city == IF region_info = None THEN JStr(city) ELSE region_info[1].city
        region_district == IF region_info = None THEN JStr("") ELSE region_info[1].district
        region_business == IF region_info = None THEN JStr("") ELSE region_info[1].business
        order_rank == row.col["s.order_user_rank"]
        verify_rank == row.col["s.verify_amount_rank"]
        order_rank_str == rank_str(order_rank)
        verify_rank_str == rank_str(verify_rank)
        exposure_users == OrZero(row.col["k.exposure_users"])
        visit_users == OrZero(row.col["k.visit_users"])
        order_users == OrZero(row.col["k.order_users"])
        verify_users == OrZero(row.col["k.verify_person_count"])
        order_coupon_count == OrZero(row.col["k.order_coupon_count"])
        verify_coupon_count == OrZero(row.col["k.verify_coupon_count"])
        phone_clicks == OrZero(row.col["p.view_phone_count"])
        address_clicks == OrZero(row.col["p.view_address_count"])
        promotion_cost == OrZero(row.col["k.promotion_cost"])
        order_sale_amount == OrZero(row.col["k.order_sale_amount"])
        verify_sale_amount == OrZero(row.col["k.verify_sale_amount"])
        verify_after_discount == OrZero(row.col["k.verify_after_discount"])
        intent_rate == IF TruthyStr(row.col["k.intent_rate"]) THEN row.col["k.intent_rate"][1]
                       ELSE "0%"
        summary_row ==
            <<<<"weekday", report_date>>, <<"date", report_date>>, idx, operator, city, sales,
              shop_name, exposure_users, visit_users, order_users, verify_users,
              order_coupon_count, verify_coupon_count, phone_clicks, address_clicks,
              promotion_cost, OrZero(row.col["k.new_good_review_count"]), intent_rate,
              order_sale_amount, verify_sale_amount, verify_after_discount,
              order_rank_str, verify_rank_str>>
        new_review_count == OrZero(row.col["k.new_review_count"])
        new_collect_users == OrZero(row.col["k.new_collect_users"])
        review_rate_str == RateStr(new_review_count, verify_users)
        review_qualified == qualified(new_review_count, verify_users, 30)
        collect_rate_str == RateStr(new_collect_users, order_users)
        collect_qualified == qualified(new_collect_users, order_users, 40)
        coupon_7days == get_coupon_orders_last_7days(row.shop_id, report_date)
        coupon_qualified == IF coupon_7days >= 10 THEN "qualified" ELSE "not_qualified"
        ad_today == get_ad_orders_today(row.shop_id, report_date)
        ad_qualified == IF ad_today >= 1 THEN "qualified" ELSE "not_qualified"
        is_force_offline == OrZero(row.col["s.is_force_offline"])
        status_info == IF is_force_offline > 0 THEN <<"forced_offline", is_force_offline>>
                       ELSE <<"no_violation">>
        region_display == IF JTruthy(region_business)
                          THEN <<region_city, "|", region_district, "|", region_business>>
                          ELSE <<JStr(city)>>
        order_rank_display == rank_display(region_display, order_rank)
        verify_rank_display == rank_display(region_display, verify_rank)
        detail_data ==
            <<<<shop_name, status_info, "">>,
              <<"report", <<"date", report_date>>, "">>,
              <<"[ad results]", "", "">>,
              <<"exposure_users", exposure_users, "">>,
              <<"visit_users", visit_users, "">>,
              <<"order_users", order_users, "">>,
              <<"order_coupon_count", order_coupon_count, "">>,
              <<"verify_users", verify_users, "">>,
              <<"verify_coupon_count", verify_coupon_count, "">>,
              <<"phone_clicks", phone_clicks, "">>,
              <<"address_clicks", address_clicks, "">>,
              <<"consult_users", OrZero(row.col["k.consult_users"]), "">>,
              <<"", "", "">>,
              <<"[in-store data]", "", "">>,
              <<"new_collect_users", new_collect_users, "">>,
              <<"checkin_count", OrZero(row.col["s.checkin_count"]), "">>,
              <<"new_review_count", new_review_count, "">>,
              <<"", "", "">>,
              <<"[promotion data]", "", "">>,
              <<"promotion_cost", promotion_cost, "">>,
              <<"click_avg_price", OrZero(row.col["p.click_avg_price"]), "">>,
              <<"promotion_order_count", OrZero(row.col["p.order_count"]), "">>,
              <<"ad_balance", OrZero(row.col["s.ad_balance"]), "">>,
              <<"", "", "">>,
              <<"review_rate", review_rate_str, review_qualified>>,
              <<"collect_rate", collect_rate_str, collect_qualified>>,
              <<"coupon_7days", coupon_7days, coupon_qualified>>,
              <<"ad_orders", <<"today", ad_today>>, ad_qualified>>,
              <<"", "", "">>,
              <<"order_sale_amount", order_sale_amount, "">>,
              <<"verify_sale_amount", verify_sale_amount, "">>,
              <<"order_user_rank", order_rank_display, "">>,
              <<"verify_amount_rank", verify_rank_display, "">>,
              <<"", "", "">>,
              <<"is_force_offline", is_force_offline, "">>,
              <<"", "", "">>,
              <<"operator", operator, "">>,
              <<"sales", sales, "">>,
              <<"city", city, "">>>>
    IN  [shop_name |-> shop_name, summary_row |-> summary_row, detail_data |-> detail_data]

\* the workbook generate_daily_report builds from the rows of its query,
\* which come ordered by shop id
DailyWorkbook(report_date, rows, shop_mapping, region_mapping) ==
    LET order == sorted({r.shop_id : r \in rows})
        row(idx) == CHOOSE r \in rows : r.shop_id = order[idx]
        stores == [idx \in 1 .. Len(order) |->
                     DailyStore(idx, row(idx), report_date, shop_mapping, region_mapping)]
    IN  [outcome |-> "path",
         stores |-> order,
         sheet |-> <<summary_headers>> \o [idx \in 1 .. Len(order) |-> stores[idx].summary_row],
         merges |-> {},
         sheets |-> <<SummaryTitle>>
                      \o SheetNames([idx \in 1 .. Len(order) |-> stores[idx].shop_name], <<>>),
         details |-> [idx \in 1 .. Len(order) |-> stores[idx].detail_data],
         shop_mapping |-> shop_mapping,
         region_mapping |-> region_mapping]

generate_daily_report_NoEmptyCheck(report_date, accounts) ==
    LET rows == daily_rows(report_date, shop_ids_filter(accounts))
    IN  {DailyWorkbook(report_date, rows, shop_mapping, region_mapping) :
            shop_mapping \in get_shop_info_mapping(accounts),
            region_mapping \in get_region_info_mapping(accounts)}

generate_daily_report(report_date, accounts) ==
    LET rows == daily_rows(report_date, shop_ids_filter(accounts))
    IN  IF rows = {} THEN {NoData}
        ELSE {DailyWorkbook(report_date, rows, shop_mapping, region_mapping) :
                shop_mapping \in get_shop_info_mapping(accounts),
                region_mapping \in get_region_info_mapping(accounts)}

(***************************************************************************)
(* The report jobs as actions: each runs one job from its parameters to    *)
(* its result on the tables as they stand.  Jobs share no state and leave  *)
(* the tables alone, so one job is run per behaviour.                      *)
(***************************************************************************)
Request(kind, dates, accounts, shop_ids) ==
    [kind |-> kind, dates |-> dates, accounts |-> accounts, shop_ids |-> shop_ids]

Daily(report_date, accounts) ==
    /\ request = None
    /\ request' = Some(Request("daily", <<report_date>>, accounts, None))
    /\ \E res \in generate_daily_report(report_date, accounts) : result' = Some(res)
    /\ UNCHANGED <<gateVars, platform_accounts, kewen_daily_report, pooljob, in_use, response>>

Weekly(week1_start, week1_end, week2_start, week2_end, accounts) ==
    /\ request = None
    /\ request' = Some(Request("weekly", <<week1_start, week1_end, week2_start, week2_end>>,
                               accounts, None))
    /\ \E res \in generate_weekly_report(week1_start, week1_end, week2_start, week2_end,
                                         accounts) : result' = Some(res)
    /\ UNCHANGED <<gateVars, platform_accounts, kewen_daily_report, pooljob, in_use, response>>

Monthly(month1_start, month1_end, month2_start, month2_end, accounts) ==
    /\ request = None
    /\ request' = Some(Request("monthly", <<month1_start, month1_end, month2_start, month2_end>>,
                               accounts, None))
    /\ \E res \in generate_monthly_report(month1_start, month1_end, month2_start, month2_end,
                                          accounts) : result' = Some(res)
    /\ UNCHANGED <<gateVars, platform_accounts, kewen_daily_report, pooljob, in_use, response>>

Custom(period1_start, period1_end, period2_start, period2_end, shop_ids, accounts) ==
    /\ request = None
    /\ request' = Some(Request("custom", <<period1_start, period1_end, period2_start, period2_end>>,
                               accounts, shop_ids))
    /\ \E res \in generate_custom_report(period1_start, period1_end, period2_start,
                                         period2_end, shop_ids, accounts) : result' = Some(res)
    /\ UNCHANGED <<gateVars, platform_accounts, kewen_daily_report, pooljob, in_use, response>>

\* the gate side while report jobs are looked at on their own
GateAtRest ==
    /\ semaphore = MAX_WORKERS
    /\ callers = [r \in {Idle} |-> NumCallers]

(***************************************************************************)
(* SpecCompare: the comparative report of one store whose two periods are  *)
(* day 1 and day 2, over every combination of counts in the numerator and  *)
(* denominator of one of the five rates.                                   *)
(***************************************************************************)
\* counts range over 0 .. MaxCount
MaxCount == 2

\* and the counts of the worked examples: 20 orders; 10 orders of 50 visits
OptCounts == {None} \cup {Some(n) : n \in (0 .. MaxCount) \cup {10, 20, 50}}

CompareRow(day, pair, num, den, other) ==
    [shop_id |-> 1, report_date |-> day, shop_name |-> Some(Central),
     col |-> [c \in TableCols |->
                IF c = pair[1] THEN num
                ELSE IF c = pair[2] THEN den
                ELSE IF c \in DailyCols THEN other ELSE None]]

InitCompare ==
    /\ GateAtRest
    /\ platform_accounts = <<>>
    /\ request = None
    /\ result = None
    /\ pooljob = NoJob
    /\ in_use = 0
    /\ response = None
    \* the numerator and denominator columns of the five rates of StoreRows
    /\ \E pair \in {<<"k.visit_users", "k.exposure_users">>,
                     <<"k.order_users", "k.visit_users">>,
                     <<"p.order_count", "k.promotion_click_count">>,
                     <<"k.new_collect_users", "k.visit_users">>,
                     <<"k.new_good_review_count", "k.verify_person_count">>},
          other \in {None, Some(7)},
          n1 \in OptCounts, d1 \in OptCounts, n2 \in OptCounts, d2 \in OptCounts,
          days \in (SUBSET {1, 2}) \ {{}} :
          /\ 1 \notin days => n1 = None /\ d1 = None
          /\ 2 \notin days => n2 = None /\ d2 = None
          /\ kewen_daily_report =
                {CompareRow(1, pair, n1, d1, other) : x \in days \cap {1}}
                    \cup {CompareRow(2, pair, n2, d2, other) : x \in days \cap {2}}

NextCompare == Weekly(1, 1, 2, 2, None)

SpecCompare == InitCompare /\ [][NextCompare]_vars

(***************************************************************************)
(* SpecReport: the four jobs on requests with and without account and      *)
(* store filters, over two stores, two days and two accounts.              *)
(***************************************************************************)
\* the largest number of rows in kewen_daily_report
MaxRows == 2

ShopIds == {1, 2}

Days == {1, 2}

\* the columns that come from promotion_daily_report and store_stats
JoinedCols ==
    {"p.view_phone_count", "p.order_count", "p.view_groupbuy_count",
     "p.view_address_count", "s.checkin_count"}

\* kewen_daily_report has one row per store and day, under one of two
\* display names, with every column of kewen_daily_report at 20 and no row
\* to join
Databases ==
    LET ShopNames == {Central, CentralEast}
        ReportCols == [c \in TableCols |->
                         IF c \in JoinedCols \cup DetailCols THEN None ELSE Some(20)]
        ReportRows ==
            {[shop_id |-> id, report_date |-> day, shop_name |-> Some(name),
              col |-> ReportCols] :
                id \in ShopIds, day \in Days, name \in ShopNames}
    IN  {db \in SUBSET ReportRows :
            /\ Cardinality(db) <= MaxRows
            /\ \A r1 \in db, r2 \in db :
                  (r1.shop_id = r2.shop_id /\ r1.report_date = r2.report_date) => r1 = r2}

StoreItem(id) == [t |-> "object", fields |-> [k \in {"shop_id"} |-> Some(id)]]

JsonList(items) == Some([kind |-> "json", value |-> [t |-> "list", items |-> items]])

Malformed == Some([kind |-> "malformed"])

AccountRow(stores_json, name) ==
    [stores_json |-> stores_json, compareRegions_json |-> None,
     sales_name |-> Some(name), city_name |-> None, operator_name |-> Some("op")]

\* acctX lists store 1 or has a malformed blob; acctY is missing, lists
\* store 2 or lists both stores
AccountTables ==
    {[a \in {"acctX"} |-> AccountRow(x, "sx")] : x \in {Malformed, JsonList(<<StoreItem(1)>>)}}
    \cup
    {[a \in {"acctX", "acctY"} |->
         IF a = "acctX" THEN AccountRow(x, "sx") ELSE AccountRow(y, "sy")] :
        x \in {Malformed, JsonList(<<StoreItem(1)>>)},
        y \in {JsonList(<<StoreItem(2)>>), JsonList(<<StoreItem(1), StoreItem(2)>>)}}

AccountLists == {None, Some({}), Some({"acctX"}), Some({"acctX", "acctY"})}

InitReport ==
    /\ GateAtRest
    /\ platform_accounts \in AccountTables
    /\ kewen_daily_report \in Databases
    /\ request = None
    /\ result = None
    /\ pooljob = NoJob
    /\ in_use = 0
    /\ response = None

\* the two periods of a weekly request are any two ranges of days; those of
\* the monthly and custom requests are day 1 against day 2, and both days
\* against day 2; a custom request names no store list, an empty one, or
\* one store
NextReport ==
    \/ \E d \in Days, accounts \in AccountLists : Daily(d, accounts)
    \/ \E p \in {q \in Days \X Days \X Days \X Days : q[1] <= q[2] /\ q[3] <= q[4]},
           accounts \in AccountLists :
          Weekly(p[1], p[2], p[3], p[4], accounts)
    \/ \E p \in {<<1, 1, 2, 2>>, <<1, 2, 2, 2>>}, accounts \in AccountLists :
          Monthly(p[1], p[2], p[3], p[4], accounts)
    \/ \E p \in {<<1, 1, 2, 2>>, <<1, 2, 2, 2>>},
           shop_ids \in {None, Some({})} \cup {Some({IntToChars(id)}) : id \in ShopIds},
           accounts \in AccountLists :
          Custom(p[1], p[2], p[3], p[4], shop_ids, accounts)

SpecReport == InitReport /\ [][NextReport]_vars

(***************************************************************************)
(* SpecDaily: the daily job of day 7 (whose trailing week is days 1 .. 7), *)
(* on databases that vary one thing at a time: the display names of the    *)
(* stores, the ranks and region of a store, the counts behind its          *)
(* qualification labels, and the blobs of the accounts.                    *)
(***************************************************************************)
\* the largest number of stores whose display names are varied
MaxNamed == 3

\* the number of stores in the database where all stores share one name
ManyStores == 100

\* a store's row on a day: the columns of kewen_daily_report at 20, its
\* intent_rate at "12%", no row to join, but for the columns given
StoreDay(shop_id, day, shop_name, given) ==
    [shop_id |-> shop_id, report_date |-> day, shop_name |-> shop_name,
     col |-> [c \in TableCols |->
                IF c \in DOMAIN given THEN given[c]
                ELSE IF c = "k.intent_rate" THEN Some("12%")
                ELSE IF c \in JoinedCols \cup DetailCols THEN None
                ELSE Some(20)]]

\* a name of 32 characters
LongNameA == [i \in 1 .. 28 |-> "n"] \o <<"a", "b", "c", "d">>

\* the names given to stores: none, a plain name, the name its second
\* collision would get, the summary's title, names with illegal characters,
\* and names of 32 and of 29 characters with the same first 28
NamePool ==
    LET Central_2 == Central \o <<"_", "2">>
        LongNameB == [i \in 1 .. 28 |-> "n"] \o <<"x">>
    IN  {None, Some(Central), Some(Central_2), Some(SummaryTitle),
         Some(<<"C", "e", "n", "/", "t", "r", "a", "l">>), Some(<<"/", "?">>),
         Some(LongNameA), Some(LongNameB)}

\* stores 1 .. n of day 7, each under a name of the pool
NamedStores ==
    UNION {{{StoreDay(id, 7, names[id], <<>>) : id \in 1 .. n} :
               names \in [1 .. n -> NamePool]} : n \in 1 .. MaxNamed}

\* store 1 with every pair of ranks
RankedStores ==
    LET RankValues == {None, Some(1), Some(99), Some(100), Some(101)}
    IN  {{StoreDay(1, 7, Some(Central),
                   ("s.order_user_rank" :> o) @@ ("s.verify_amount_rank" :> v))} :
            o \in RankValues, v \in RankValues}

\* store 1 with every pair of counts behind its review rate, and behind its
\* favorite rate; and with counts whose rate lies just under and just over a
\* threshold (62 / 207 = 29.95..%, 161 / 403 = 39.95..%)
RatedStores ==
    LET QualCounts == {None, Some(0), Some(2), Some(3), Some(4), Some(10), Some(15), Some(40)}
    IN
    {{StoreDay(1, 7, Some(Central),
               ("k.new_review_count" :> n) @@ ("k.verify_person_count" :> d)
                   @@ ("k.exposure_users" :> Some(100)) @@ ("k.visit_users" :> Some(40))
                   @@ ("k.order_users" :> Some(10)))} :
        n \in QualCounts, d \in QualCounts}
    \cup
    {{StoreDay(1, 7, Some(Central),
               ("k.new_collect_users" :> n) @@ ("k.order_users" :> d))} :
        n \in QualCounts, d \in QualCounts}
    \cup
    {{StoreDay(1, 7, Some(Central),
               ("k.new_review_count" :> Some(n)) @@ ("k.verify_person_count" :> Some(207)))} :
        n \in 61 .. 63}
    \cup
    {{StoreDay(1, 7, Some(Central),
               ("k.new_collect_users" :> Some(n)) @@ ("k.order_users" :> Some(403)))} :
        n \in 160 .. 162}

\* store 1 with coupon-paid orders on days 0, 1 and 7, store 2 with 10 on
\* day 7; and store 1 with and without ad orders on day 7
TrailingStores ==
    LET CouponCounts == {None, Some(0), Some(4), Some(5), Some(6), Some(10)}
    IN
    {{StoreDay(1, 0, Some(Central), "k.coupon_pay_order_count" :> c0),
      StoreDay(1, 1, Some(Central), "k.coupon_pay_order_count" :> c1),
      StoreDay(1, 7, Some(Central), "k.coupon_pay_order_count" :> c7),
      StoreDay(2, 7, Some(CentralEast), "k.coupon_pay_order_count" :> Some(10))} :
        c0 \in CouponCounts, c1 \in CouponCounts, c7 \in CouponCounts}
    \cup
    {{StoreDay(1, 7, Some(Central), "s.ad_order_count" :> a),
      StoreDay(1, 6, Some(Central), "s.ad_order_count" :> Some(3))} :
        a \in {None, Some(0), Some(1), Some(2)}}

\* a region entry {"regions": {"city": c, "district": d, "business": b}}
RegionEntry(city_info, district_info, business_info) ==
    JObject("regions" :> JObject(("city" :> city_info) @@ ("district" :> district_info)
                                     @@ ("business" :> business_info)))

\* {"regionName": name}
Named(name) == JObject("regionName" :> JStr(name))

\* a compareRegions_json text that decodes to an object with store 1
RegionBlob(shop_data) ==
    Some([kind |-> "json", value |-> JObject(<<"1">> :> shop_data)])

\* the region texts: NULL, malformed, not an object, entries of every shape;
\* an entry holds for city, district or business a name, a null name, no
\* name, or something that is not an object
RegionBlobs ==
    LET InfoValues == {Named("zone"), JObject("regionName" :> JNull), EmptyDict, JStr("zone")}
    IN
    {None, Malformed, Some([kind |-> "json", value |-> JStr("zone")]),
     RegionBlob(JStr("zone")), RegionBlob(EmptyDict),
     RegionBlob(JObject("regions" :> JNull)),
     RegionBlob(JObject("regions" :> JObject("city" :> Named("town"))))}
    \cup {RegionBlob(RegionEntry(c, d, b)) : c \in InfoValues, d \in InfoValues, b \in InfoValues}

\* the region of store 1 in full
FullRegion == RegionBlob(RegionEntry(Named("town"), Named("district"), Named("zone")))

\* an account row with both blobs
AccountBlobs(stores_json, regions_json, name) ==
    [AccountRow(stores_json, name) EXCEPT !.compareRegions_json = regions_json]

\* acctX with any stores blob beside acctY with a sound one, and acctX with
\* any region blob.  NoIdItem is a list item that is a dict without shop_id;
\* BrokenStores are the stores_json that are NULL, empty, malformed, an
\* object, a string, a list without dicts, a list of dicts without shop_id;
\* SoundStores are lists with stores
BlobAccounts ==
    LET NoIdItem == [t |-> "object", fields |-> <<>>]
        BrokenStores ==
            {None, Some([kind |-> "empty"]), Malformed,
             Some([kind |-> "json", value |-> EmptyDict]),
             Some([kind |-> "json", value |-> JStr("1")]),
             JsonList(<<JStr("1"), [t |-> "number", n |-> 1]>>), JsonList(<<NoIdItem>>)}
        SoundStores ==
            {JsonList(<<StoreItem(1)>>), JsonList(<<StoreItem(2)>>),
             JsonList(<<StoreItem(1), StoreItem(2)>>),
             JsonList(<<JStr("1"), StoreItem(1), NoIdItem>>)}
    IN
    {[a \in {"acctX", "acctY"} |->
         IF a = "acctX" THEN AccountBlobs(x, FullRegion, "sx")
         ELSE AccountBlobs(y, None, "sy")] :
        x \in BrokenStores \cup SoundStores, y \in SoundStores}
    \cup
    {[a \in {"acctX"} |-> AccountBlobs(JsonList(<<StoreItem(1)>>), r, "sx")] :
        r \in RegionBlobs}

InitDaily ==
    /\ GateAtRest
    /\ request = None
    /\ result = None
    /\ pooljob = NoJob
    /\ in_use = 0
    /\ response = None
    /\ \/ /\ platform_accounts =
                [a \in {"acctX"} |-> AccountBlobs(JsonList(<<StoreItem(1)>>), FullRegion, "sx")]
          /\ kewen_daily_report \in
                NamedStores \cup RankedStores \cup RatedStores \cup TrailingStores
                    \* ManyStores stores under one long name
                    \cup {{StoreDay(id, 7, Some(LongNameA), <<>>) : id \in 1 .. ManyStores}}
       \/ /\ platform_accounts \in BlobAccounts
          /\ kewen_daily_report =
                {StoreDay(1, 7, Some(Central), <<>>), StoreDay(2, 7, Some(CentralEast), <<>>)}
       \/ /\ platform_accounts \in
                {[a \in {"acctX"} |-> AccountBlobs(JsonList(<<StoreItem(1)>>), r, "sx")] :
                    r \in {None, FullRegion,
                           RegionBlob(RegionEntry(Named("town"), EmptyDict, EmptyDict))}}
          /\ kewen_daily_report \in RankedStores

NextDaily == \E accounts \in AccountLists : Daily(7, accounts)

SpecDaily == InitDaily /\ [][NextDaily]_vars

(***************************************************************************)
(* SpecPool: one report job followed step by step through its use of the   *)
(* connection pool.  The steps of a job are                                *)
(*   <<"acquire", c>>   db.get_connection() and conn.cursor(), for the     *)
(*                      connection the code holds in the variable c        *)
(*   <<"query", c, q>>  cursor.execute and the fetch of query q            *)
(*   <<"decode", q>>    turning the rows of q into a dict or a number      *)
(*   <<"render", w>>    work on the workbook                               *)
(*   <<"release", c>>   cursor.close() and conn.close() in `finally`       *)
(*   <<"end", o>>       the job returns its path or raises                 *)
(* What the data is plays no part: a query returns some number of rows.    *)
(***************************************************************************)
\* the largest number of rows the daily query returns
MaxLoop == 3

\* a function that takes a connection for one query: get_shop_info_mapping,
\* get_region_info_mapping, get_coupon_orders_last_7days, get_ad_orders_today,
\* and the accounts query at the head of generate_daily_report.  The cursor
\* is made before the try block is entered
Lookup(c, q) ==
    <<<<"acquire", c>>, <<"cursor", c>>, <<"query", c, q>>, <<"decode", q>>, <<"release", c>>>>

\* generate_daily_report up to its query
DailyHead(with_accounts) ==
    (IF with_accounts THEN Lookup("conn_temp", "sql_accounts") ELSE <<>>)
        \o Lookup("conn of get_shop_info_mapping", "shop_info")
        \o Lookup("conn of get_region_info_mapping", "region_info")
        \o <<<<"acquire", "conn">>, <<"cursor", "conn">>, <<"query", "conn", "daily">>>>

\* generate_daily_report once its query has returned n rows; PerStore is
\* one pass of the loop over the rows
DailyTail(n) ==
    LET PerStore ==
            <<<<"render", "summary_row">>, <<"render", "create_sheet">>>>
                \o Lookup("conn of get_coupon_orders_last_7days", "coupon_7days")
                \o Lookup("conn of get_ad_orders_today", "ad_today")
                \o <<<<"render", "detail_data">>>>
    IN
    IF n = 0 THEN <<<<"release", "conn">>, <<"end", "ValueError">>>>
    ELSE <<<<"render", "summary_headers">>>>
            \o Concat([i \in 1 .. n |-> PerStore])
            \o <<<<"render", "styles">>, <<"render", "save">>,
                 <<"release", "conn">>, <<"end", "path">>>>

\* generate_weekly_report up to its second query
WeeklyHead ==
    Lookup("conn of get_shop_info_mapping", "shop_info")
        \o <<<<"acquire", "conn">>, <<"cursor", "conn">>,
             <<"query", "conn", "week1">>, <<"query", "conn", "week2">>>>

\* generate_weekly_report once both queries have returned
WeeklyTail(empty) ==
    IF empty THEN <<<<"release", "conn">>, <<"end", "ValueError">>>>
    ELSE <<<<"render", "blocks">>, <<"render", "styles">>, <<"render", "merge_cells">>,
           <<"render", "save">>, <<"release", "conn">>, <<"end", "path">>>>

\* the job sets out
BeginJob(kind, with_accounts) ==
    /\ pooljob.kind = "none"
    /\ pooljob' = [pooljob EXCEPT !.kind = kind,
                          !.todo = IF kind = "daily" THEN DailyHead(with_accounts)
                                   ELSE WeeklyHead]
    /\ UNCHANGED <<gateVars, platform_accounts, kewen_daily_report, request, result, in_use, response>>

\* the step the job takes next
Step == pooljob.todo[1]

AtStep(what) == pooljob.todo # <<>> /\ Step[1] = what

\* db.get_connection()
Acquire ==
    /\ AtStep("acquire")
    /\ in_use < DB_POOL_SIZE
    /\ in_use' = in_use + 1
    /\ pooljob' = [pooljob EXCEPT !.held = @ @@ (Step[2] :> 0), !.todo = Tail(@), !.last = Step]
    /\ UNCHANGED <<gateVars, platform_accounts, kewen_daily_report, request, result, response>>

\* conn.cursor(dictionary=True), after which the try block is entered
OpenCursor ==
    /\ AtStep("cursor")
    /\ pooljob' = [pooljob EXCEPT !.in_try = @ \cup {Step[2]}, !.todo = Tail(@), !.last = Step]
    /\ UNCHANGED <<gateVars, platform_accounts, kewen_daily_report, request, result, in_use, response>>

\* a query: the two on which the rest of the job depends are the daily
\* query and the second of the two period queries
Query ==
    /\ AtStep("query")
    /\ \E n \in 0 .. MaxLoop, empty \in BOOLEAN :
          pooljob' = [pooljob EXCEPT !.held[Step[2]] = @ + 1,
                             !.last = Step,
                             !.todo = IF Step[3] = "daily" THEN DailyTail(n)
                                      ELSE IF Step[3] = "week2" THEN WeeklyTail(empty)
                                      ELSE Tail(@)]
    /\ UNCHANGED <<gateVars, platform_accounts, kewen_daily_report, request, result, in_use, response>>

\* decoding and rendering use no connection
Work ==
    /\ AtStep("decode") \/ AtStep("render")
    /\ pooljob' = [pooljob EXCEPT !.todo = Tail(@), !.last = Step]
    /\ UNCHANGED <<gateVars, platform_accounts, kewen_daily_report, request, result, in_use, response>>

\* finally: cursor.close(); conn.close()
ReleaseConn ==
    /\ AtStep("release")
    /\ in_use' = in_use - 1
    /\ pooljob' = [pooljob EXCEPT !.held = [c \in (DOMAIN @) \ {Step[2]} |-> @[c]],
                          !.in_try = @ \ {Step[2]},
                          !.todo = Tail(@), !.last = Step]
    /\ UNCHANGED <<gateVars, platform_accounts, kewen_daily_report, request, result, response>>

\* making the cursor, a query, or a step of rendering or saving raises: the
\* finally clauses of the try blocks the job is in close their connections,
\* the innermost first, and the exception leaves the job
Fail ==
    /\ AtStep("cursor") \/ AtStep("query") \/ AtStep("render")
    /\ in_use' = in_use - Cardinality(pooljob.in_try)
    /\ pooljob' = [pooljob EXCEPT !.held = [c \in (DOMAIN @) \ pooljob.in_try |-> @[c]],
                          !.in_try = {},
                          !.todo = <<>>,
                          !.last = <<"raise", Step[1]>>,
                          !.outcome = "Exception"]
    /\ UNCHANGED <<gateVars, platform_accounts, kewen_daily_report, request, result, response>>

End ==
    /\ AtStep("end")
    /\ pooljob' = [pooljob EXCEPT !.outcome = Step[2], !.todo = <<>>, !.last = Step]
    /\ UNCHANGED <<gateVars, platform_accounts, kewen_daily_report, request, result, in_use, response>>

InitPool ==
    /\ GateAtRest
    /\ platform_accounts = <<>>
    /\ kewen_daily_report = {}
    /\ request = None
    /\ result = None
    /\ pooljob = NoJob
    /\ in_use = 0
    /\ response = None

NextPool ==
    \/ \E kind \in {"daily", "weekly", "monthly", "custom"}, with_accounts \in BOOLEAN :
          BeginJob(kind, with_accounts)
    \/ Acquire
    \/ OpenCursor
    \/ Query
    \/ Work
    \/ ReleaseConn
    \/ Fail
    \/ End

SpecPool == InitPool /\ [][NextPool]_vars

(***************************************************************************)
(* SpecRoute: the report routes behind the gate.  Each of the four routes  *)
(* awaits run_task inside a try block, tests the path it was given, and    *)
(* turns ValueError into 400 and every other Exception into 500.           *)
(***************************************************************************)
\* the status code of the response of a route to which run_task gave back
\* `received`, a path or the job's exception; exists is os.path.exists of
\* the path.  The HTTPException(404) is raised inside the try block and is
\* an Exception, not a ValueError
create_report(received, exists) ==
    LET raised == IF received # "path" THEN received
                  ELSE IF ~exists THEN "HTTPException(404)"
                  ELSE "none"
    IN  IF raised = "none" THEN 200
        ELSE IF raised = "ValueError" THEN 400
        ELSE 500

\* the route of a caller that run_task has returned or raised to responds;
\* a cancelled request gets no response
Respond(r, exists) ==
    /\ r.pc = "done"
    /\ r.received # "CancelledError"
    /\ callers' = Move(callers, r, [r EXCEPT !.pc = "responded"])
    /\ response' = Some([received |-> r.received,
                         exists |-> exists,
                         status_code |-> create_report(r.received, exists)])
    /\ UNCHANGED <<semaphore, platform_accounts, kewen_daily_report, request, result, pooljob, in_use>>

NextRoute ==
    \/ Submit
    \/ Admit
    \/ \E r \in Present : StartJob(r)
    \/ \E r \in Present, o \in JobOutcomes : FinishJob(r, o)
    \/ \E r \in Present : Complete(r)
    \/ \E r \in Present : Cancel(r)
    \/ \E r \in Present, exists \in BOOLEAN : Respond(r, exists)

SpecRoute == InitGate /\ [][NextRoute]_vars

(***************************************************************************)
(* SpecLoad: the jobs behind the gate and the connections they hold.  A    *)
(* job body holds at most MaxHeld connections at a time (its main          *)
(* connection and that of one nested lookup) and none when it ends.        *)
(***************************************************************************)
\* the most connections one job holds: conn and the connection of the
\* lookup it calls inside the loop over the stores
MaxHeld == 2

\* a running job takes a connection from the pool
JobAcquire ==
    /\ in_use < MaxHeld * Executing
    /\ in_use < DB_POOL_SIZE
    /\ in_use' = in_use + 1
    /\ UNCHANGED <<gateVars, platform_accounts, kewen_daily_report, request, result, pooljob, response>>

\* a running job closes a connection
JobRelease ==
    /\ in_use > 0
    /\ in_use' = in_use - 1
    /\ UNCHANGED <<gateVars, platform_accounts, kewen_daily_report, request, result, pooljob, response>>

\* a job body that holds no connection ends
JobEnd(r, o) ==
    /\ in_use <= MaxHeld * (Executing - 1)
    /\ FinishJob(r, o)

NextLoad ==
    \/ Submit
    \/ Admit
    \/ \E r \in Present : StartJob(r)
    \/ \E r \in Present, o \in JobOutcomes : JobEnd(r, o)
    \/ \E r \in Present : Complete(r)
    \/ \E r \in Present : Cancel(r)
    \/ JobAcquire
    \/ JobRelease

SpecLoad == InitGate /\ [][NextLoad]_vars

(***************************************************************************)
(* Properties of the report jobs                                           *)
(***************************************************************************)
Ran == result # None

Comparative == Ran /\ request[1].kind \in {"weekly", "monthly", "custom"}

\* the daily rows of one store in a range of days
RowsOf(shop, start, end) == {r \in InRange(start, end) : r.shop_id = shop}

\* the sum of a column over them, NULL counting as 0
PeriodSum(shop, start, end, c) == SumOver(RowsOf(shop, start, end), c)

\* round(num / den * 100, 1) in tenths: the multiple of 0.1 nearest to the
\* quotient (the even one of two equally near); 0 when den is 0
NearestTenth(num, den) ==
    LET q == (1000 * num) \div den
    IN  CHOOSE t \in {q, q + 1} :
            \/ 2 * Abs(1000 * num - t * den) < den
            \/ 2 * Abs(1000 * num - t * den) = den /\ t % 2 = 0

ClaimRate(num, den) == IF den > 0 THEN NearestTenth(num, den) ELSE 0

\* where the five rates stand in a block: row of the delta, column,
\* numerator column, denominator column
RateCells ==
    {<<4, 10, "k.visit_users", "k.exposure_users">>,
     <<4, 13, "k.order_users", "k.visit_users">>,
     <<8, 12, "p.order_count", "k.promotion_click_count">>,
     <<8, 18, "k.new_collect_users", "k.visit_users">>,
     <<8, 20, "k.new_good_review_count", "k.verify_person_count">>}

\* where the additive fields stand: row of the header, column, summed column
AdditiveCells ==
    {<<1, 7, "k.verify_after_discount">>, <<1, 8, "k.exposure_users">>,
     <<1, 9, "k.visit_users">>, <<1, 11, "k.order_users">>,
     <<1, 12, "k.order_coupon_count">>, <<1, 14, "k.verify_person_count">>,
     <<1, 15, "k.verify_coupon_count">>, <<1, 16, "k.order_sale_amount">>,
     <<1, 17, "k.verify_sale_amount">>, <<1, 18, "k.coupon_pay_order_count">>,
     <<1, 19, "p.view_phone_count">>,
     <<5, 7, "k.promotion_cost">>, <<5, 8, "k.promotion_exposure_count">>,
     <<5, 9, "k.promotion_click_count">>, <<5, 11, "p.order_count">>,
     <<5, 13, "p.view_groupbuy_count">>, <<5, 14, "p.view_phone_count">>,
     <<5, 15, "k.consult_users">>, <<5, 16, "p.view_address_count">>,
     <<5, 17, "k.new_collect_users">>, <<5, 19, "k.new_good_review_count">>}

\* the averages: row of the header, column
AverageCells == {<<1, 20>>, <<5, 10>>}

\* the first row of the block of the i-th store, less one
BlockBase(i) == 8 * (i - 1)

\* C5: for each of the five ratio fields the delta cell of a comparative
\* report is rate(B) - rate(A) to one decimal, each period's rate being
\* round(num / den * 100, 1), or 0 when its denominator is 0.
C5_RateDeltaFromPeriodRates ==
    (Comparative /\ result[1].outcome = "path") =>
        \A i \in 1 .. Len(result[1].stores), cell \in RateCells :
            LET shop == result[1].stores[i]
                d == request[1].dates
                text == result[1].sheet[BlockBase(i) + cell[1]][cell[2]]
                rateA == ClaimRate(PeriodSum(shop, d[1], d[2], cell[3]),
                                   PeriodSum(shop, d[1], d[2], cell[4]))
                rateB == ClaimRate(PeriodSum(shop, d[3], d[4], cell[3]),
                                   PeriodSum(shop, d[3], d[4], cell[4]))
            IN  /\ text # <<>>
                /\ text[Len(text)] = "%"
                /\ float(rstrip(text, "%")) = rateB - rateA

\* period A has no orders, period B has 10 orders of 50 visits: the order
\* rate delta reads 20.0%
C5_Witness ==
    /\ Comparative
    /\ \E r \in kewen_daily_report :
          r.report_date = 1 /\ r.col["k.order_users"] = Some(0)
    /\ \E r \in kewen_daily_report :
          /\ r.report_date = 2
          /\ r.col["k.order_users"] = Some(10)
          /\ r.col["k.visit_users"] = Some(50)
    /\ result[1].sheet[4][13] = <<"2", "0", ".", "0", "%">>

\* C6: a store with rows in one period only is reported; a field with no
\* value in a period (no row, or NULL in every row) shows 0 there, rates and
\* averages of a period without rows show 0; every additive delta is the
\* period-B cell less the period-A cell.
C6_MissingPeriodZeroFilled ==
    Comparative =>
        LET d == request[1].dates
            res == result[1]
            NoValue(shop, start, end, c) ==
                \A r \in RowsOf(shop, start, end) : r.col[c] = None
        IN  /\ \A r \in InRange(d[1], d[2]) \cup InRange(d[3], d[4]) :
                  \E i \in 1 .. Len(res.stores) : res.stores[i] = r.shop_id
            /\ \A i \in 1 .. Len(res.stores) :
                  LET shop == res.stores[i]
                      Cell(row, col) == res.sheet[BlockBase(i) + row][col]
                  IN  /\ \A cell \in AdditiveCells :
                            /\ NoValue(shop, d[1], d[2], cell[3])
                                  => Cell(cell[1] + 1, cell[2]) = 0
                            /\ NoValue(shop, d[3], d[4], cell[3])
                                  => Cell(cell[1] + 2, cell[2]) = 0
                            /\ Cell(cell[1] + 3, cell[2])
                                  = Cell(cell[1] + 2, cell[2]) - Cell(cell[1] + 1, cell[2])
                      /\ \A cell \in RateCells :
                            /\ RowsOf(shop, d[1], d[2]) = {}
                                  => Cell(cell[1] - 2, cell[2]) = <<"0", "%">>
                            /\ RowsOf(shop, d[3], d[4]) = {}
                                  => Cell(cell[1] - 1, cell[2]) = <<"0", "%">>
                      /\ \A cell \in AverageCells :
                            /\ RowsOf(shop, d[1], d[2]) = {}
                                  => Cell(cell[1] + 1, cell[2]) = 0
                            /\ RowsOf(shop, d[3], d[4]) = {}
                                  => Cell(cell[1] + 2, cell[2]) = 0

\* the store has 20 order users in period A and no row in period B: its
\* period-B order users read 0 and the delta -20
C6_Witness ==
    /\ Comparative
    /\ \E r \in kewen_daily_report :
          r.report_date = 1 /\ r.col["k.order_users"] = Some(20)
    /\ InRange(2, 2) = {}
    /\ result[1].outcome = "path"
    /\ result[1].sheet[3][11] = 0
    /\ result[1].sheet[4][11] = -20

\* C7: a two-period job ends with the no-data error exactly when no row
\* lies in either period, a daily job exactly when its query returns no row;
\* otherwise the job returns a path.
C7_NoDataIffEmpty ==
    Ran =>
        LET d == request[1].dates
            empty == IF request[1].kind = "daily"
                     THEN daily_rows(d[1], shop_ids_filter(request[1].accounts)) = {}
                     ELSE InRange(d[1], d[2]) = {} /\ InRange(d[3], d[4]) = {}
        IN  /\ result[1].outcome \in {"path", "ValueError"}
            /\ (result[1].outcome = "ValueError") <=> empty

\* a two-period job of which just one period has rows returned a path
C7_Witness ==
    /\ Comparative
    /\ InRange(request[1].dates[1], request[1].dates[2]) = {}
    /\ InRange(request[1].dates[3], request[1].dates[4]) # {}
    /\ result[1].outcome = "path"

\* the shop ids the stores blobs of the accounts of a request resolve to
Resolved(accounts) ==
    UNION {StoreIdsOf(platform_accounts[a].stores_json) :
             a \in {b \in DOMAIN platform_accounts : b \in accounts[1]}}

\* C8: a daily job whose accounts resolve to no store ends with the no-data
\* error.
C8_NoStoresGivesNoData ==
    (Ran /\ request[1].kind = "daily"
         /\ Truthy(request[1].accounts) /\ Resolved(request[1].accounts) = {})
        => result[1].outcome = "ValueError"

\* C9: with accounts given, every store in the summary of a comparative
\* report is a store those accounts resolve to.
C9_ComparativeStoresWithinAccounts ==
    (Comparative /\ Truthy(request[1].accounts)) =>
        \A i \in 1 .. Len(result[1].stores) :
            IntToChars(result[1].stores[i]) \in Resolved(request[1].accounts)

\* C10: with a store list given, every store of a custom report is in that
\* list or resolved from the accounts; with neither given, the stores are
\* all those with rows in either period.
C10_CustomStoresWithinFilter ==
    (Ran /\ request[1].kind = "custom") =>
        LET d == request[1].dates
            reported == {result[1].stores[i] : i \in 1 .. Len(result[1].stores)}
            accounts == request[1].accounts
            shop_ids == request[1].shop_ids
        IN  /\ Truthy(shop_ids) =>
                  \A id \in reported :
                      \/ IntToChars(id) \in shop_ids[1]
                      \/ Truthy(accounts) /\ IntToChars(id) \in Resolved(accounts)
            /\ (~Truthy(shop_ids) /\ ~Truthy(accounts)) =>
                  reported = {r.shop_id : r \in InRange(d[1], d[2]) \cup InRange(d[3], d[4])}

DailyRan == Ran /\ request[1].kind = "daily" /\ result[1].outcome = "path"

\* the daily row behind the i-th store of a daily report
RowOfStore(i) ==
    CHOOSE r \in kewen_daily_report :
        r.shop_id = result[1].stores[i] /\ r.report_date = request[1].dates[1]

\* C11: the sheet names asked for one daily workbook, the summary sheet's
\* title included, are pairwise distinct.
C11_SheetNamesDistinct ==
    DailyRan =>
        \A i \in 1 .. Len(result[1].sheets), j \in 1 .. Len(result[1].sheets) :
            i # j => result[1].sheets[i] # result[1].sheets[j]

\* C12: every detail-sheet name of a daily workbook is non-empty, has at
\* most 31 characters and none of the characters \ / * ? : [ ].
C12_SheetNamesWellFormed ==
    DailyRan =>
        \A i \in 2 .. Len(result[1].sheets) :
            LET name == result[1].sheets[i]
            IN  /\ name # <<>>
                /\ Len(name) <= 31
                /\ \A k \in 1 .. Len(name) : name[k] \notin {"\\", "/", "*", "?", ":", "[", "]"}

\* C13: a job holds a pooled connection for one query only: whenever it has
\* executed a query, that is the first query on its connection and it holds
\* no other connection; whenever it has done rendering work it holds none.
C13_OneConnectionPerQuery ==
    /\ (pooljob.last # <<>> /\ pooljob.last[1] = "query") =>
          /\ pooljob.held[pooljob.last[2]] = 1
          /\ DOMAIN pooljob.held = {pooljob.last[2]}
    /\ (pooljob.last # <<>> /\ pooljob.last[1] = "render") => DOMAIN pooljob.held = {}

C15_RecordSumsAllRowsOfStore ==
    (Comparative /\ result[1].outcome = "path") =>
        \A i \in 1 .. Len(result[1].stores), cell \in AdditiveCells :
            LET shop == result[1].stores[i]
                d == request[1].dates
            IN  /\ result[1].sheet[BlockBase(i) + cell[1] + 1][cell[2]]
                      = PeriodSum(shop, d[1], d[2], cell[3])
                /\ result[1].sheet[BlockBase(i) + cell[1] + 2][cell[2]]
                      = PeriodSum(shop, d[3], d[4], cell[3])

\* C16: in the summary row and on the detail sheet, for the order rank and
\* the verify rank: a rank below 100 reads "rank N", a rank of 100 or more
\* "greater than rank 100", an absent rank the dash.
C16_RankRendering ==
    DailyRan =>
        \A i \in 1 .. Len(result[1].stores) :
            LET RankText(rank) ==
                    IF rank = None THEN <<"--">>
                    ELSE IF rank[1] < 100 THEN <<"rank", rank[1]>>
                    ELSE <<"gt100">>
                order_rank == RowOfStore(i).col["s.order_user_rank"]
                verify_rank == RowOfStore(i).col["s.verify_amount_rank"]
                summary_row == result[1].sheet[i + 1]
                order_display == result[1].details[i][32][2]
                verify_display == result[1].details[i][33][2]
            IN  /\ summary_row[22] = RankText(order_rank)
                /\ summary_row[23] = RankText(verify_rank)
                /\ SubSeq(order_display, 3, Len(order_display)) = RankText(order_rank)
                /\ SubSeq(verify_display, 3, Len(verify_display)) = RankText(verify_rank)

\* C17: the i-th store in ascending order of shop id has rows 8(i-1)+1 ..
\* 8(i-1)+8 of the one summary sheet: header, period A, period B, delta,
\* promotion header, period A, period B, delta; the sheet has 8N rows, the
\* sequence numbers are 1 .. N, and there is no detail sheet.
C17_EightRowBlocks ==
    (Comparative /\ result[1].outcome = "path") =>
        LET res == result[1]
            d == request[1].dates
            N == Len(res.stores)
        IN  /\ Len(res.sheet) = 8 * N
            /\ res.sheets = <<SummaryTitle>>
            /\ res.details = <<>>
            /\ \A i \in 1 .. N, j \in 1 .. N : i < j => res.stores[i] < res.stores[j]
            /\ \A i \in 1 .. N :
                  LET shop == res.stores[i]
                      Cell(row, col) == res.sheet[BlockBase(i) + row][col]
                      inA == RowsOf(shop, d[1], d[2]) # {}
                      inB == RowsOf(shop, d[3], d[4]) # {}
                  IN  /\ res.sheet[BlockBase(i) + 1] = header_row1
                      /\ res.sheet[BlockBase(i) + 5] = header_row2
                      /\ Cell(2, 1) = i
                      /\ Cell(2, 6) = <<d[1], d[2]>> /\ Cell(6, 6) = <<d[1], d[2]>>
                      /\ Cell(3, 6) = <<d[3], d[4]>> /\ Cell(7, 6) = <<d[3], d[4]>>
                      /\ Cell(4, 6) = "diff" /\ Cell(8, 6) = "diff"
                      /\ (Cell(2, 8) > 0) <=> inA
                      /\ (Cell(6, 7) > 0) <=> inA
                      /\ (Cell(3, 8) > 0) <=> inB
                      /\ (Cell(7, 7) > 0) <=> inB
                      /\ Cell(4, 8) = Cell(3, 8) - Cell(2, 8)
                      /\ Cell(8, 7) = Cell(7, 7) - Cell(6, 7)

\* two stores, store 1 in period A only and store 2 in period B only
C17_Witness ==
    /\ Comparative
    /\ result[1].outcome = "path"
    /\ result[1].stores = <<1, 2>>
    /\ Len(result[1].sheet) = 16
    /\ RowsOf(1, request[1].dates[3], request[1].dates[4]) = {}
    /\ RowsOf(2, request[1].dates[1], request[1].dates[2]) = {}

\* the merged ranges <<first row, last row, column>> of a comparative sheet
\* do not overlap
MergesDisjoint ==
    \A m1 \in result[1].merges, m2 \in result[1].merges :
        (m1 # m2 /\ m1[3] = m2[3]) => (m1[2] < m2[1] \/ m2[2] < m1[1])

\* C18 as stated: each of the five leftmost columns is merged over all 8
\* rows of every store's block, the ranges of different stores do not
\* overlap, and the last store has its merge too.
C18_MergedOverEightRows ==
    (Comparative /\ result[1].outcome = "path") =>
        /\ MergesDisjoint
        /\ \A i \in 1 .. Len(result[1].stores), col \in 1 .. 5 :
              \E m \in result[1].merges :
                  m[3] = col /\ m[1] = BlockBase(i) + 1 /\ m[2] = BlockBase(i) + 8

\* C18 amended: each of the five leftmost columns is merged over the seven
\* rows 8(i-1)+2 .. 8(i-1)+8 of every store's block, under the block's first
\* header row; there are no other merges, so the ranges of different stores
\* do not overlap, and the last store has its merge too.
C18_MergedBelowHeader ==
    (Comparative /\ result[1].outcome = "path") =>
        /\ MergesDisjoint
        /\ result[1].merges =
              {<<BlockBase(i) + 2, BlockBase(i) + 8, col>> :
                  i \in 1 .. Len(result[1].stores), col \in 1 .. 5}

\* two stores: the second store's columns are merged over rows 10 .. 16
C18_Witness ==
    /\ Comparative
    /\ result[1].outcome = "path"
    /\ Len(result[1].stores) = 2
    /\ <<10, 16, 5>> \in result[1].merges

\* C19: the four labels of a detail sheet read "qualified" exactly when the
\* review rate (new reviews / verified users * 100, 0 without verified
\* users) is at least 30, the favorite rate (new favorites / order users *
\* 100, 0 without order users) at least 40, the coupon-paid orders of the
\* seven days ending on the report date at least 10, and the ad orders of
\* the day at least 1; "not qualified" otherwise.
C19_QualificationLabels ==
    DailyRan =>
        \A i \in 1 .. Len(result[1].stores) :
            LET row == RowOfStore(i)
                day == request[1].dates[1]
                Count0(c) == IF row.col[c] = None THEN 0 ELSE row.col[c][1]
                Label(holds) == IF holds THEN "qualified" ELSE "not_qualified"
                detail == result[1].details[i]
            IN  /\ detail[25][3] =
                      Label(/\ Count0("k.verify_person_count") > 0
                            /\ 100 * Count0("k.new_review_count")
                                  >= 30 * Count0("k.verify_person_count"))
                /\ detail[26][3] =
                      Label(/\ Count0("k.order_users") > 0
                            /\ 100 * Count0("k.new_collect_users")
                                  >= 40 * Count0("k.order_users"))
                /\ detail[27][3] =
                      Label(PeriodSum(row.shop_id, day - 6, day, "k.coupon_pay_order_count") >= 10)
                /\ detail[28][3] = Label(Count0("s.ad_order_count") >= 1)

\* 15 new reviews of 40 verified users: 37.5%, qualified; the summary row
\* shows exposure 100, visits 40, order users 10
C19_Witness ==
    /\ DailyRan
    /\ result[1].details[1][25]
          = <<"review_rate", <<"3", "7", ".", "5", "%">>, "qualified">>
    /\ result[1].sheet[2][8] = 100
    /\ result[1].sheet[2][9] = 40
    /\ result[1].sheet[2][10] = 10

\* C20: every field of every entry of the resolver's metadata maps is a
\* string.
C20_MetadataFieldsAreStrings ==
    DailyRan =>
        /\ \A id \in DOMAIN result[1].shop_mapping :
              /\ result[1].shop_mapping[id].operator \in STRING
              /\ result[1].shop_mapping[id].sales \in STRING
              /\ result[1].shop_mapping[id].city \in STRING
        /\ \A id \in DOMAIN result[1].region_mapping :
              /\ result[1].region_mapping[id].city.t = "string"
              /\ result[1].region_mapping[id].district.t = "string"
              /\ result[1].region_mapping[id].business.t = "string"

\* C25: on every daily detail sheet the label beside the review rate reads
\* "qualified" exactly when the rate as displayed, with one decimal, is at
\* least 30.0%, and the label beside the favorite rate exactly when the rate
\* as displayed is at least 40.0%.
C25_LabelAgreesWithDisplayedRate ==
    DailyRan =>
        \A i \in 1 .. Len(result[1].stores) :
            LET detail == result[1].details[i]
                Shown(cell) == float(rstrip(cell, "%"))
            IN  /\ (detail[25][3] = "qualified") <=> (Shown(detail[25][2]) >= 300)
                /\ (detail[26][3] = "qualified") <=> (Shown(detail[26][2]) >= 400)

\* C22: a job whose body is executing on a worker has its caller inside
\* `async with semaphore`, holding a token: run_task gives no token back
\* while the job it dispatched is running.
C22_RunningJobHoldsToken ==
    \A r \in Present : r.job = "running" => r.pc = "awaiting"

\* C23: a job that has ended, with a path or with any failure, holds no
\* pooled connection.
C23_NoConnectionHeldAfterJob ==
    pooljob.outcome # "running" => (DOMAIN pooljob.held = {} /\ in_use = 0)

\* C21: a route whose job returned a path to a file that does not exist
\* responds with 404, a route whose job raised the no-data ValueError with
\* 400, and only a route whose job failed otherwise with 500.
C21_MissingFileGives404 ==
    response # None =>
        /\ (response[1].received = "path" /\ ~response[1].exists)
              => response[1].status_code = 404
        /\ response[1].received = "ValueError" => response[1].status_code = 400
        /\ response[1].status_code = 500 => response[1].received = "Exception"

\* C24: the connections in use are never more than two per admitted job,
\* 2 * MAX_WORKERS in all, and never all of the pool.
C24_ConnectionsWithinPool ==
    /\ in_use <= 2 * MAX_WORKERS
    /\ in_use < DB_POOL_SIZE

====
